---- MODULE Spec2Model ----
(***************************************************************************)
(* A model of the Tara.AI backend's analytics service                      *)
(* (backend/services/learningAnalytics.js).                                *)
(*                                                                         *)
(* JavaScript strings are sequences of UTF-16 code units.  A code unit is  *)
(* written as a one-character TLA+ string for ASCII ("a", ".", " ") and as *)
(* "Uxxxx" for the Devanagari and Tamil code units of the marker tables.   *)
(* JavaScript numbers that the scorer produces are modelled as exact       *)
(* rationals [n |-> numerator, d |-> denominator] in lowest terms; the     *)
(* rounding of IEEE doubles is not modelled.                               *)
(***************************************************************************)
EXTENDS Integers, Sequences, FiniteSets, TLC

VARIABLES op,      \* name of the method of LearningAnalytics that is called
          args,    \* the arguments of the call
          pc,      \* "called" until the method has run, then "returned"
          ret,     \* what the call returned to its caller
          errors,  \* the console.error messages the call wrote, in order
          interactions, \* the documents of the collection 'interactions'
          now,     \* the day that Timestamp.now() and new Date() read
          calls,   \* the scoreResponseQuality calls in flight on one instance
          frames,  \* the values each call in flight has computed so far
          ask,     \* a POST /api/ask request and the state of its handler
          upload,  \* a POST /api/transcribe request and the uploads directory
          voice,   \* the voice state of the App component and its recorders
          form     \* the state of a mounted FeedbackComponent

storeVars == <<interactions, now>>
callVars == <<calls, frames>>
webVars == <<ask, upload, voice, form>>
analyticsVars == <<op, args, pc, ret, errors, storeVars, callVars>>
vars == <<op, args, pc, ret, errors, interactions, now, calls, frames,
          ask, upload, voice, form>>

\* No request, no recorder and no form: the server and the page are not
\* part of the behaviour.
WebIdle == ask = <<>> /\ upload = <<>> /\ voice = <<>> /\ form = <<>>

\* No call of the analytics service or of the interaction model is part of
\* the behaviour.
AnalyticsIdle ==
  /\ op = "none" /\ args = <<>> /\ pc = "idle"
  /\ ret = <<>> /\ errors = <<>>
  /\ interactions = <<>> /\ now = 0
  /\ calls = <<>> /\ frames = <<>>

----------------------------------------------------------------------------
(* Rational numbers                                                        *)

RECURSIVE Gcd(_, _)
Gcd(a, b) == IF b = 0 THEN a ELSE Gcd(b, a % b)

Rat(n, d) == LET g == Gcd(n, d) IN [n |-> n \div g, d |-> d \div g]

Zero == Rat(0, 1)
One == Rat(1, 1)

RatLE(x, y) == x.n * y.d <= y.n * x.d
RatAdd(x, y) == Rat(x.n * y.d + y.n * x.d, x.d * y.d)
RatMul(x, y) == Rat(x.n * y.n, x.d * y.d)
RatMin(x, y) == IF RatLE(x, y) THEN x ELSE y
RatMax(x, y) == IF RatLE(x, y) THEN y ELSE x

----------------------------------------------------------------------------
(* JavaScript values                                                       *)
(* A value is a record [t, s, n, a]: t is the type tag, s the code units   *)
(* of a string, n the value of a number or boolean (true = 1), a the       *)
(* elements (strings, as code-unit sequences) of an array.                 *)

Str(s) == [t |-> "string", s |-> s, n |-> 0, a |-> <<>>]
Num(n) == [t |-> "number", s |-> <<>>, n |-> n, a |-> <<>>]
Bool(b) == [t |-> "boolean", s |-> <<>>, n |-> IF b THEN 1 ELSE 0, a |-> <<>>]
Arr(a) == [t |-> "array", s |-> <<>>, n |-> 0, a |-> a]
Undefined == [t |-> "undefined", s |-> <<>>, n |-> 0, a |-> <<>>]
Null == [t |-> "null", s |-> <<>>, n |-> 0, a |-> <<>>]
Obj == [t |-> "object", s |-> <<>>, n |-> 0, a |-> <<>>]

IsString(v) == v.t = "string"

\* ToBoolean: undefined, null, false, 0 and "" are falsy; objects and
\* arrays (the empty array too) are truthy.
Truthy(v) ==
  CASE v.t = "undefined" -> FALSE
    [] v.t = "null" -> FALSE
    [] v.t = "boolean" -> v.n = 1
    [] v.t = "number" -> v.n # 0
    [] v.t = "string" -> Len(v.s) > 0
    [] OTHER -> TRUE

\* x || dflt
OrElse(v, dflt) == IF Truthy(v) THEN v ELSE dflt

----------------------------------------------------------------------------
(* String primitives                                                       *)

UpperCase == <<"A","B","C","D","E","F","G","H","I","J","K","L","M",
               "N","O","P","Q","R","S","T","U","V","W","X","Y","Z">>
LowerCase == <<"a","b","c","d","e","f","g","h","i","j","k","l","m",
               "n","o","p","q","r","s","t","u","v","w","x","y","z">>

\* String.prototype.toLowerCase: only A-Z change among the code units of
\* the model (Devanagari and Tamil have no case).
LowerOf ==
  [c \in {UpperCase[i] : i \in 1..26} |->
     LowerCase[CHOOSE i \in 1..26 : UpperCase[i] = c]]

LowerChar(c) == IF c \in DOMAIN LowerOf THEN LowerOf[c] ELSE c

toLowerCase(s) == [i \in 1..Len(s) |-> LowerChar(s[i])] \o <<>>

\* The code units \s matches, of those in the model.
WhiteSpace == {" ", "\n"}

\* String.prototype.includes(w): w occurs in s as a substring.
includes(s, w) ==
  \E i \in 1..(Len(s) - Len(w) + 1) : \A k \in 1..Len(w) : s[i + k - 1] = w[k]

\* Array.prototype.includes(w) on an array of strings: SameValueZero.
arrayIncludes(a, w) == \E i \in 1..Len(a) : a[i] = w

\* String.prototype.trim: strip whitespace at both ends.
RECURSIVE TrimEnd(_)
TrimEnd(s) ==
  IF Len(s) > 0 /\ s[Len(s)] \in WhiteSpace THEN TrimEnd(SubSeq(s, 1, Len(s) - 1))
  ELSE s

RECURSIVE TrimStart(_)
TrimStart(s) ==
  IF Len(s) > 0 /\ s[1] \in WhiteSpace THEN TrimStart(Tail(s))
  ELSE s

trim(s) == TrimStart(TrimEnd(s))

\* The first index >= i of s that holds a code unit in Sep (NextIn) or not
\* in Sep (NextNotIn); Len(s) + 1 if there is none.
NextIn(s, i, Sep) ==
  CHOOSE j \in i..(Len(s) + 1) :
    /\ j > Len(s) \/ s[j] \in Sep
    /\ \A k \in i..(j - 1) : s[k] \notin Sep

NextNotIn(s, i, Sep) ==
  CHOOSE j \in i..(Len(s) + 1) :
    /\ j > Len(s) \/ s[j] \notin Sep
    /\ \A k \in i..(j - 1) : s[k] \in Sep

\* String.prototype.split(/[Sep]+/): the pieces between maximal runs of
\* separators.  A separator at the start or the end leaves an empty piece
\* there, and "" splits to [""].
RECURSIVE SplitFrom(_, _, _)
SplitFrom(s, i, Sep) ==
  LET j == NextIn(s, i, Sep)
      piece == SubSeq(s, i, j - 1)
  IN IF j > Len(s) THEN <<piece>>
     ELSE <<piece>> \o SplitFrom(s, NextNotIn(s, j, Sep), Sep)

split(s, Sep) == SplitFrom(s, 1, Sep)

----------------------------------------------------------------------------
(* Completion records                                                      *)
(* A block of code either returns a number or throws.  A try/catch turns a *)
(* throw into the handler's return value and one console.error message.    *)

Return(v) == [threw |-> FALSE, v |-> v]
Throw == [threw |-> TRUE, v |-> Zero]

ReturnLogged(v, log) == [threw |-> FALSE, v |-> v, log |-> log]

\* A catch block that returns a neutral score instead of 0.
CatchReturnHalf(r, msg) ==
  IF r.threw THEN ReturnLogged(Rat(1, 2), <<msg>>) ELSE ReturnLogged(r.v, <<>>)

\* try { r } catch (error) { console.error(msg); return 0; }
CatchReturnZero(r, msg) ==
  IF r.threw THEN ReturnLogged(Zero, <<msg>>) ELSE ReturnLogged(r.v, <<>>)

\* Math.min(Math.max(x, 0), 1)
Clamp01(x) == RatMin(RatMax(x, Zero), One)

----------------------------------------------------------------------------
(* Property lookup in an object literal                                    *)
(* table[key] finds the literal's own property, or else a property that    *)
(* every object inherits from Object.prototype (a function or an object,   *)
(* truthy and without array methods), or else undefined.                   *)

ObjectPrototypeKeys ==
  { <<"c","o","n","s","t","r","u","c","t","o","r">>,
    <<"t","o","S","t","r","i","n","g">>,
    <<"v","a","l","u","e","O","f">> }

Own(list) == [kind |-> "own", list |-> list]
Inherited == [kind |-> "inherited", list |-> <<>>]
Missing == [kind |-> "undefined", list |-> <<>>]

\* ToPropertyKey of a value used as table[key], for the keys that matter:
\* a string is its own key; undefined and null become "undefined" and
\* "null", which no table and no prototype defines.
Lookup(table, key) ==
  IF IsString(key) /\ key.s \in DOMAIN table THEN Own(table[key.s])
  ELSE IF IsString(key) /\ key.s \in ObjectPrototypeKeys THEN Inherited
  ELSE Missing

----------------------------------------------------------------------------
(* calculateRelevance                                                      *)

\* The length rule with 3 for 2.
LongerThanThree(w) == Len(w) > 3

\* w => w.length > 2
QualifyingWord(w) == Len(w) > 2

\* question.toLowerCase().split(/\s+/).filter(w => w.length > 2)
questionWordsOf(question) ==
  SelectSeq(split(toLowerCase(question), WhiteSpace), QualifyingWord)

\* The answer split without lower-casing it.
answerWordsCaseSensitive(answer) == split(answer, WhiteSpace)

\* answer.toLowerCase().split(/\s+/)
answerWordsOf(answer) == split(toLowerCase(answer), WhiteSpace)

\* questionWords.filter(word => answerWords.includes(word)).length
overlapOf(questionWords, answerWords) ==
  LET Hit(word) == arrayIncludes(answerWords, word)
  IN Len(SelectSeq(questionWords, Hit))

\* The body of the try block.  toLowerCase exists on strings only: calling
\* it on a number, boolean, array or plain object is a TypeError.
calculateRelevanceTry(question, answer) ==
  IF ~Truthy(question) \/ ~Truthy(answer) THEN Return(Zero)
  ELSE IF ~IsString(question) \/ ~IsString(answer) THEN Throw
  ELSE LET questionWords == questionWordsOf(question.s)
           answerWords == answerWordsOf(answer.s)
       IN IF Len(questionWords) = 0 THEN Return(Zero)
          ELSE Return(Clamp01(Rat(overlapOf(questionWords, answerWords),
                                  Len(questionWords))))

calculateRelevance(question, answer) ==
  CatchReturnZero(calculateRelevanceTry(question, answer),
                  "Error calculating relevance:")

----------------------------------------------------------------------------
(* assessLanguageQuality                                                   *)

hi == <<"h","i">>
en == <<"e","n">>
ta == <<"t","a">>

checks ==
  (hi :> << <<"U0939","U0948">>, <<"U0939","U0948","U0902">>,
            <<"U0915","U094B">>, <<"U092E","U0947","U0902">>,
            <<"U0915","U093E">> >>)
  @@ (en :> << <<"t","h","e">>, <<"i","s">>, <<"a","r","e">>,
               <<"t","o">>, <<"o","f">> >>)
  @@ (ta :> << <<"U0B89","U0BB3","U0BCD","U0BB3","U0BA4","U0BC1">>,
               <<"U0B8E","U0BA9","U0BCD","U0BB1","U0BC1">>,
               <<"U0B85","U0BA4","U0BC1">>,
               <<"U0B87","U0BA4","U0BC1">> >>)

\* checks[language] || checks.en
expectedWordsOf(language) ==
  LET found == Lookup(checks, language)
  IN IF found.kind = "undefined" THEN Own(checks[en]) ELSE found

\* word => answer.includes(word): strings and arrays have an includes
\* method; on any other value the call is a TypeError.
HasIncludes(answer) == answer.t \in {"string", "array"}

answerIncludes(answer, word) ==
  IF answer.t = "string" THEN includes(answer.s, word)
  ELSE arrayIncludes(answer.a, word)

\* hasExpectedWords ? 0.8 : 0.4
\* A check that gives a full mark to an answer with an expected word.
languageScoreFull(hasExpectedWords) == IF hasExpectedWords THEN One ELSE Rat(4, 10)

languageScore(hasExpectedWords) == IF hasExpectedWords THEN Rat(8, 10) ELSE Rat(4, 10)

\* The body of the try block.  An inherited property is no array, so
\* expectedWords.some is not a function; every own list is non-empty, so the
\* callback runs at least once and a missing includes method is hit.
assessLanguageQualityTry(answer, language) ==
  IF ~Truthy(answer) THEN Return(Zero)
  ELSE LET expectedWords == expectedWordsOf(language)
       IN IF expectedWords.kind = "inherited" THEN Throw
          ELSE IF ~HasIncludes(answer) THEN Throw
          ELSE Return(languageScore(
                 \E k \in 1..Len(expectedWords.list) :
                    answerIncludes(answer, expectedWords.list[k])))

assessLanguageQuality(answer, language) ==
  CatchReturnZero(assessLanguageQualityTry(answer, language),
                  "Error assessing language quality:")

----------------------------------------------------------------------------
(* assessCulturalRelevance                                                 *)

culturalMarkers ==
  (hi :> << <<"U092D","U093E","U0930","U0924">>,
            <<"U0917","U093E","U0902","U0935">>,
            <<"U0936","U0939","U0930">>,
            <<"U0924","U094D","U092F","U094B","U0939","U093E","U0930">>,
            <<"U092A","U093E","U0930","U093F","U0935","U093E","U0930","U093F","U0915">>,
            <<"U092C","U0949","U0932","U0940","U0935","U0941","U0921">>,
            <<"U0915","U094D","U0930","U093F","U0915","U0947","U091F">> >>)
  @@ (en :> << <<"I","n","d","i","a">>, <<"f","a","m","i","l","y">>,
               <<"f","e","s","t","i","v","a","l">>,
               <<"c","r","i","c","k","e","t">>,
               <<"B","o","l","l","y","w","o","o","d">> >>)

\* culturalMarkers[language] || []
markersOf(language) ==
  LET found == Lookup(culturalMarkers, language)
  IN IF found.kind = "undefined" THEN Own(<<>>) ELSE found

\* The answer searched without lower-casing it.
markerHitCaseSensitive(answer, marker) == includes(answer, toLowerCase(marker))

\* marker => answer.toLowerCase().includes(marker.toLowerCase())
markerHit(answer, marker) == includes(toLowerCase(answer), toLowerCase(marker))

\* markers.filter(...).length
relevantMarkersOf(answer, markers) ==
  LET Hit(marker) == markerHit(answer, marker)
  IN Len(SelectSeq(markers, Hit))

\* Math.min(Math.max(relevantMarkers / 2, 0), 1)
culturalScore(relevantMarkers) == Clamp01(Rat(relevantMarkers, 2))

\* The body of the try block.  An inherited property has no filter method;
\* with an empty list the callback never runs, so a non-string answer is
\* never touched.
assessCulturalRelevanceTry(answer, language) ==
  IF ~Truthy(answer) THEN Return(Zero)
  ELSE LET markers == markersOf(language)
       IN IF markers.kind = "inherited" THEN Throw
          ELSE IF Len(markers.list) > 0 /\ ~IsString(answer) THEN Throw
          ELSE IF Len(markers.list) = 0 THEN Return(culturalScore(0))
          ELSE Return(culturalScore(relevantMarkersOf(answer.s, markers.list)))

assessCulturalRelevance(answer, language) ==
  CatchReturnZero(assessCulturalRelevanceTry(answer, language),
                  "Error assessing cultural relevance:")

----------------------------------------------------------------------------
(* assessCompleteness                                                      *)

minLength == 50

\* /[।.!]$/
ConclusionMarks == {"U0964", ".", "!"}

\* /[।.!]$/.test(answer.trim())
hasConclusionOf(answer) ==
  LET trimmed == trim(answer)
  IN Len(trimmed) > 0 /\ trimmed[Len(trimmed)] \in ConclusionMarks

\* >= for >.
hasExplanationAtLeast(answer) == Len(answer) >= minLength

\* answer.length > minLength
hasExplanationOf(answer) == Len(answer) > minLength

\* (hasConclusion ? 0.5 : 0) + (hasExplanation ? 0.5 : 0)
completenessScore(hasConclusion, hasExplanation) ==
  RatAdd(IF hasConclusion THEN Rat(1, 2) ELSE Zero,
         IF hasExplanation THEN Rat(1, 2) ELSE Zero)

\* The body of the try block: trim exists on strings only.
assessCompletenessTry(answer) ==
  IF ~Truthy(answer) THEN Return(Zero)
  ELSE IF ~IsString(answer) THEN Throw
  ELSE Return(completenessScore(hasConclusionOf(answer.s), hasExplanationOf(answer.s)))

assessCompleteness(answer) ==
  CatchReturnZero(assessCompletenessTry(answer), "Error assessing completeness:")

----------------------------------------------------------------------------
(* assessClarity                                                           *)

\* /[।.!?]+/
SentenceMarks == {"U0964", ".", "!", "?"}

\* The fragment tested without trimming it.
NonEmpty(s) == Len(s) > 0

\* s => s.trim().length > 0
NonBlank(s) == Len(trim(s)) > 0

\* answer.split(/[।.!?]+/).filter(s => s.trim().length > 0)
sentencesOf(answer) == SelectSeq(split(answer, SentenceMarks), NonBlank)

LongSentence == 150
MediumSentence == 100
ShortSentence == 50

\* avgSentenceLength = answer.length / sentences.length, put through the
\* steps > 150, > 100, > 50.  length / count > k is length > k * count.
clarityScoreOf(length, count) ==
  IF length > LongSentence * count THEN Rat(3, 10)
  ELSE IF length > MediumSentence * count THEN Rat(6, 10)
  ELSE IF length > ShortSentence * count THEN Rat(9, 10)
  ELSE Rat(7, 10)

\* The body of the try block: a string's split is the only one there is.
assessClarityTry(answer) ==
  IF ~Truthy(answer) THEN Return(Zero)
  ELSE IF ~IsString(answer) THEN Throw
  ELSE LET sentences == sentencesOf(answer.s)
       IN IF Len(sentences) = 0 THEN Return(Zero)
          ELSE Return(Clamp01(clarityScoreOf(Len(answer.s), Len(sentences))))

assessClarity(answer) ==
  CatchReturnZero(assessClarityTry(answer), "Error assessing clarity:")

----------------------------------------------------------------------------
(* scoreResponseQuality                                                    *)

\* Object.entries(metrics): the keys in insertion order.
MetricNames ==
  <<"relevance", "languageQuality", "culturalContext", "completeness", "clarity">>

\* The weights of completeness and clarity exchanged.
weightsSwapped ==
  [relevance |-> Rat(3, 10), languageQuality |-> Rat(25, 100),
   culturalContext |-> Rat(2, 10), completeness |-> Rat(1, 10),
   clarity |-> Rat(15, 100)]

weights ==
  [relevance |-> Rat(3, 10), languageQuality |-> Rat(25, 100),
   culturalContext |-> Rat(2, 10), completeness |-> Rat(15, 100),
   clarity |-> Rat(1, 10)]

ZeroMetrics ==
  [relevance |-> Zero, languageQuality |-> Zero, culturalContext |-> Zero,
   completeness |-> Zero, clarity |-> Zero]

\* metrics[key] = isNaN(value) ? 0 : Math.max(0, Math.min(1, value)); every
\* heuristic returns a number, so the NaN arm is never taken.
validMetric(value) == RatMax(Zero, RatMin(One, value))

\* isNaN(overallScore) ? 0 : Math.max(0, Math.min(1, overallScore))
validOverall(overallScore) == RatMax(Zero, RatMin(One, overallScore))

\* Object.entries(metrics).reduce((sum, [key, value]) => sum + value * weight, 0)
\* over the first k entries.
RECURSIVE weightedSum(_, _)
weightedSum(metrics, k) ==
  IF k = 0 THEN Zero
  ELSE RatAdd(weightedSum(metrics, k - 1),
              RatMul(metrics[MetricNames[k]], weights[MetricNames[k]]))

EmptyString == Str(<<>>)

ScoreCompletion(threw, overallScore, metrics, log) ==
  [threw |-> threw, overallScore |-> overallScore, metrics |-> metrics, log |-> log]

\* The body of the try block.  thisBound is FALSE when the method is called
\* detached from its instance (this is undefined): this.calculateRelevance
\* is then a TypeError.  A heuristic that threw would end the block too.
scoreResponseQualityTry(thisBound, question, answer, language, subject) ==
  IF ~thisBound THEN ScoreCompletion(TRUE, Zero, ZeroMetrics, <<>>)
  ELSE
    LET relevance == calculateRelevance(OrElse(question, EmptyString),
                                        OrElse(answer, EmptyString))
        languageQuality == assessLanguageQuality(OrElse(answer, EmptyString),
                                                 OrElse(language, Str(en)))
        culturalContext == assessCulturalRelevance(OrElse(answer, EmptyString),
                                                   OrElse(language, Str(en)))
        completeness == assessCompleteness(OrElse(answer, EmptyString))
        clarity == assessClarity(OrElse(answer, EmptyString))
        log == relevance.log \o languageQuality.log \o culturalContext.log
               \o completeness.log \o clarity.log
        metrics == [relevance |-> validMetric(relevance.v),
                    languageQuality |-> validMetric(languageQuality.v),
                    culturalContext |-> validMetric(culturalContext.v),
                    completeness |-> validMetric(completeness.v),
                    clarity |-> validMetric(clarity.v)]
    IN IF relevance.threw \/ languageQuality.threw \/ culturalContext.threw
          \/ completeness.threw \/ clarity.threw
       THEN ScoreCompletion(TRUE, Zero, ZeroMetrics, log)
       ELSE ScoreCompletion(FALSE, validOverall(weightedSum(metrics, Len(MetricNames))),
                            metrics, log)

\* A catch block that reports the failure as a score of -1.
CatchReturnSentinelScore(r, msg) ==
  IF r.threw THEN ScoreCompletion(FALSE, Rat(-1, 1), ZeroMetrics, Append(r.log, msg))
  ELSE r

\* catch (error) { console.error(...); return { overallScore: 0, metrics: all 0 } }
CatchReturnZeroScore(r, msg) ==
  IF r.threw THEN ScoreCompletion(FALSE, Zero, ZeroMetrics, Append(r.log, msg))
  ELSE r

scoreResponseQuality(thisBound, question, answer, language, subject) ==
  CatchReturnZeroScore(
    scoreResponseQualityTry(thisBound, question, answer, language, subject),
    "Error in scoreResponseQuality:")

----------------------------------------------------------------------------
(* The inputs of the model                                                 *)

MaxWordParts == 3
MaxMarkerParts == 2
MaxStructParts == 3
MaxScoreParts == 3

\* The concatenations of up to n atoms.
RECURSIVE TextsOver(_, _)
TextsOver(Atoms, n) ==
  IF n = 0 THEN {<<>>}
  ELSE LET shorter == TextsOver(Atoms, n - 1)
       IN shorter \cup {t \o a : t \in shorter, a \in Atoms}

Filler(n) == [i \in 1..n |-> "x"] \o <<>>

SpeedOfLightQuestion ==
  <<"W","h","a","t"," ","i","s"," ","t","h","e"," ","s","p","e","e","d"," ",
    "o","f"," ","l","i","g","h","t">>
SpeedOfLightAnswer ==
  <<"T","h","e"," ","s","p","e","e","d"," ","o","f"," ","l","i","g","h","t"," ",
    "i","s"," ","c","o","n","s","t","a","n","t">>
ShortAnswer == <<"S","h","o","r","t",".">>
NoMarkersAnswer ==
  <<"n","o"," ","m","a","r","k","e","r","s"," ","h","e","r","e">>

QuestionAtoms == { <<"i","s">>, <<"t","h","e">>, <<"S","p","e","e","d">>, <<" ">> }
AnswerAtoms == { <<"t","h","e"," ">>, <<"s","p","e","e","d">> }

MarkerAtoms ==
  { <<"t","h","e">>, <<"T","h","e">>, <<"I","n","d","i","a">>,
    <<"C","R","I","C","K","E","T"," ","f","e","s","t","i","v","a","l">>,
    <<"U0939","U0948">>,
    <<"U092D","U093E","U0930","U0924">>, <<"U0936","U0939","U0930">>,
    <<"U0B85","U0BA4","U0BC1">>, <<" ">> }

StructAtoms ==
  { Filler(50), Filler(100), <<".">>, <<"?">>, <<"U0964">>, <<" ">> }

ExclaimedAnswer == <<"H","i","!","\n">>

ScoreAtoms ==
  { <<"t","h","e"," ","s","p","e","e","d"," ","I","n","d","i","a"," ",
      "C","R","I","C","K","E","T"," ">>,
    <<"I","n","d","i","a">>, Filler(50), <<".">> }

\* Values that are not strings: what a caller can pass by mistake.
NonStrings ==
  { Undefined, Null, Num(0), Num(5), Bool(FALSE), Bool(TRUE),
    Arr(<<>>), Arr(<< <<"t","h","e">> >>), Obj }

Strings(texts) == {Str(s) : s \in texts}

Questions == Strings(TextsOver(QuestionAtoms, MaxWordParts) \cup {SpeedOfLightQuestion})
Answers == Strings(TextsOver(AnswerAtoms, MaxWordParts) \cup {SpeedOfLightAnswer})
MarkerTexts == Strings(TextsOver(MarkerAtoms, MaxMarkerParts) \cup {NoMarkersAnswer})
StructTexts ==
  Strings(TextsOver(StructAtoms, MaxStructParts) \cup {ShortAnswer, ExclaimedAnswer})
ScoreTexts == Strings(TextsOver(ScoreAtoms, MaxScoreParts))

ScoreQuestions ==
  { Undefined, Num(5), Str(<<"t","h","e"," ","S","p","e","e","d">>), Str(<<"i","s">>) }

\* Language codes: the three with a marker list, one of the server's other
\* codes, a name every object inherits, and a missing argument.
Languages ==
  { Str(hi), Str(en), Str(ta), Str(<<"b","n">>),
    Str(<<"c","o","n","s","t","r","u","c","t","o","r">>), Undefined }

ScoreLanguages == Languages \ {Str(ta)}

Subjects == { Undefined, Str(<<"m","a","t","h">>) }

----------------------------------------------------------------------------------------------------------------------------------------
(* The state machine.  A behaviour is one call of one public method: the   *)
(* initial state holds the method and its arguments (pc = "called"), and   *)
(* the method's action runs it to its return (pc = "returned").            *)

NoReturn == [threw |-> FALSE, v |-> Zero]

CallsOf(name, arguments) == {[op |-> name, args |-> a] : a \in arguments}

Calls ==
  CallsOf("calculateRelevance",
          (Questions \cup NonStrings) \X (Answers \cup NonStrings))
  \cup CallsOf("assessLanguageQuality", (MarkerTexts \cup NonStrings) \X Languages)
  \cup CallsOf("assessCulturalRelevance", (MarkerTexts \cup NonStrings) \X Languages)
  \cup CallsOf("assessCompleteness", {<<a>> : a \in StructTexts \cup NonStrings})
  \cup CallsOf("assessClarity", {<<a>> : a \in StructTexts \cup NonStrings})
  \cup CallsOf("scoreResponseQuality",
               BOOLEAN \X ScoreQuestions \X (ScoreTexts \cup NonStrings)
                 \X ScoreLanguages \X Subjects)

Init ==
  /\ \E c \in Calls : op = c.op /\ args = c.args
  /\ pc = "called"
  /\ ret = NoReturn
  /\ errors = <<>>
  /\ interactions = <<>> /\ now = 0
  /\ calls = <<>> /\ frames = <<>>
  /\ WebIdle

Called(name) == pc = "called" /\ op = name

Returned(r) ==
  /\ pc' = "returned"
  /\ ret' = [threw |-> r.threw, v |-> r.v]
  /\ errors' = r.log
  /\ UNCHANGED <<op, args, storeVars, callVars, webVars>>

CallCalculateRelevance ==
  /\ Called("calculateRelevance")
  /\ Returned(calculateRelevance(args[1], args[2]))

CallAssessLanguageQuality ==
  /\ Called("assessLanguageQuality")
  /\ Returned(assessLanguageQuality(args[1], args[2]))

CallAssessCulturalRelevance ==
  /\ Called("assessCulturalRelevance")
  /\ Returned(assessCulturalRelevance(args[1], args[2]))

CallAssessCompleteness ==
  /\ Called("assessCompleteness")
  /\ Returned(assessCompleteness(args[1]))

CallAssessClarity ==
  /\ Called("assessClarity")
  /\ Returned(assessClarity(args[1]))

CallScoreResponseQuality ==
  /\ Called("scoreResponseQuality")
  /\ LET r == scoreResponseQuality(args[1], args[2], args[3], args[4], args[5])
     IN /\ pc' = "returned"
        /\ ret' = [threw |-> r.threw, overallScore |-> r.overallScore,
                   metrics |-> r.metrics]
        /\ errors' = r.log
        /\ UNCHANGED <<op, args, storeVars, callVars, webVars>>

Next ==
  \/ CallCalculateRelevance
  \/ CallAssessLanguageQuality
  \/ CallAssessCulturalRelevance
  \/ CallAssessCompleteness
  \/ CallAssessClarity
  \/ CallScoreResponseQuality

Spec == Init /\ [][Next]_vars

----------------------------------------------------------------------------
(* The interaction model (backend/models/interaction.js)                   *)
(* The collection 'interactions' is a function from document ids to        *)
(* documents.  A document is a record over DocFields in which a field the  *)
(* document does not have holds Undefined.  A Date or Timestamp is an      *)
(* object whose n is its day number.                                       *)

DocFields ==
  { "question", "language", "subject", "grade", "conceptDifficulty",
    "answer", "retryCount", "flaggedForReview", "tokensUsed",
    "responseQuality", "userRating", "wasHelpful",
    "timestamp", "createdAt", "updatedAt" }

DateOf(day) == [t |-> "object", s |-> <<>>, n |-> day, a |-> <<>>]

EmptyDoc == [f \in DocFields |-> Undefined]

\* { ...base, ...data }: every field of data, and the fields of base that
\* data does not name.
Spread(base, data) ==
  [f \in DocFields |-> IF f \in DOMAIN data THEN data[f] ELSE base[f]]

\* setDoc(docRef, data) without the merge option: the document becomes data.
setDocReplace(store, id, data) == (id :> Spread(EmptyDoc, data)) @@ store

\* setDoc(docRef, data, { merge: true }): the fields of data are written
\* over the document, its other fields are kept; a document that does not
\* exist is created.
setDocMerge(store, id, data) ==
  LET old == IF id \in DOMAIN store THEN store[id] ELSE EmptyDoc
  IN (id :> Spread(old, data)) @@ store

\* addDoc(collection, data): a document under an id no document has.
addDoc(store, id, data) == (id :> Spread(EmptyDoc, data)) @@ store

\* create, lines 13-18: the caller's timestamp if it gave one, else now.
sanitizedDataOf(interactionData, today) ==
  LET given == IF "timestamp" \in DOMAIN interactionData
               THEN interactionData["timestamp"] ELSE Undefined
      stamps == [timestamp |-> IF Truthy(given) THEN given ELSE DateOf(today),
                 createdAt |-> DateOf(today),
                 updatedAt |-> DateOf(today)]
  IN Spread(Spread(EmptyDoc, interactionData), stamps)

\* updateWithFeedback, lines 34-37: { ...feedbackData, updatedAt: now }
feedbackWriteOf(feedbackData, today) ==
  [f \in (DOMAIN feedbackData) \cup {"updatedAt"} |->
     IF f = "updatedAt" THEN DateOf(today) ELSE feedbackData[f]]

----------------------------------------------------------------------------
(* The queries of LearningAnalytics (lines 7-129)                          *)
(* Each query starts by evaluating the identifier Interaction.  Line 2     *)
(* binds db, collection, getDocs, query, where, orderBy and limit, line 4  *)
(* binds LearningAnalytics, and nothing in the module or in Node's global  *)
(* object binds Interaction: evaluating it throws a ReferenceError, which  *)
(* rejects the promise of the async method before any pipeline is built.   *)

ModuleScope ==
  { "db", "collection", "getDocs", "query", "where", "orderBy", "limit",
    "LearningAnalytics" }

IsBound(identifier) == identifier \in ModuleScope

ReferenceError(identifier) ==
  [threw |-> TRUE, v |-> <<"ReferenceError:", identifier, "is not defined">>]

\* Evaluating an identifier: its binding, or a ReferenceError.
Resolve(identifier) ==
  IF IsBound(identifier) THEN [threw |-> FALSE, v |-> identifier]
  ELSE ReferenceError(identifier)

IsNumber(v) == v.t = "number"
IsMissing(v) == v.t \in {"undefined", "null"}
IsDate(v) == v.t = "object"

\* Query operators ({ field: { $gte: k } }) compare within one type: a
\* field that is missing, or of another type, does not match.
QueryGTE(v, k) == IsNumber(v) /\ v.n >= k
QueryLTE(v, k) == IsNumber(v) /\ v.n <= k
QueryDateGTE(v, day) == IsDate(v) /\ v.n >= day

\* Expression operators ({ $gte: ['$field', k] }) compare in BSON order:
\* null and missing sort below every number, every other type above.
ExprGTE(v, k) == IF IsNumber(v) THEN v.n >= k ELSE ~IsMissing(v)
ExprLTE(v, k) == IF IsNumber(v) THEN v.n <= k ELSE IsMissing(v)

\* { $sum: '$field' } over the documents ids: non-numbers count as 0.
RECURSIVE SumOf(_, _, _)
SumOf(store, ids, field) ==
  IF ids = {} THEN 0
  ELSE LET id == CHOOSE i \in ids : TRUE
       IN (IF IsNumber(store[id][field]) THEN store[id][field].n ELSE 0)
          + SumOf(store, ids \ {id}, field)

\* { $avg: '$field' }: the mean of the numeric values, null if there is none.
avgOf(store, ids, field) ==
  LET numeric == {id \in ids : IsNumber(store[id][field])}
  IN IF numeric = {} THEN Null
     ELSE Rat(SumOf(store, numeric, field), Cardinality(numeric))

IsNullAvg(x) == "t" \in DOMAIN x

\* The order of { $sort: { key: 1 } }: null first, then numbers ascending.
AvgLE(x, y) == IsNullAvg(x) \/ (~IsNullAvg(y) /\ RatLE(x, y))

\* The sequences that hold every row of rows once.
OrdersOf(rows) ==
  {s \in [1..Cardinality(rows) -> rows] : \A r \in rows : \E i \in DOMAIN s : s[i] = r}

\* analyzeUserFeedback, lines 8-9 and the $match of line 12
startDateOf(today, timeRange) ==
  today - (IF timeRange.t = "undefined" THEN 30 ELSE timeRange.n)

feedbackMatch(store, startDate) ==
  {id \in DOMAIN store : QueryDateGTE(store[id]["timestamp"], startDate)}

\* the _id of the $group of lines 15-19
feedbackKey(doc) ==
  [language |-> doc["language"], subject |-> doc["subject"], grade |-> doc["grade"]]

\* the accumulators of lines 20-23; the columns avgResponseTime,
\* avgTokensUsed and commonIssues, which no method reads, are left out.
feedbackRow(store, ids, key) ==
  [id |-> key,
   avgRating |-> avgOf(store, ids, "userRating"),
   totalInteractions |-> Cardinality(ids),
   positiveCount |-> Cardinality({i \in ids : ExprGTE(store[i]["userRating"], 4)}),
   negativeCount |-> Cardinality({i \in ids : ExprLTE(store[i]["userRating"], 2)})]

feedbackGroups(store, matched) ==
  { feedbackRow(store, {i \in matched : feedbackKey(store[i]) = key}, key) :
      key \in {feedbackKey(store[i]) : i \in matched} }

\* { $sort: { avgRating: 1 } }: rows of equal avgRating come in any order.
sortByAvgRating(rows) ==
  {s \in OrdersOf(rows) :
     \A i, j \in DOMAIN s : i < j => AvgLE(s[i].avgRating, s[j].avgRating)}

\* The outcomes of analyzeUserFeedback(timeRange) on the store.
analyzeUserFeedback(store, today, timeRange) ==
  LET Interaction == Resolve("Interaction")
  IN IF Interaction.threw THEN {Interaction}
     ELSE {Return(rows) :
             rows \in sortByAvgRating(
               feedbackGroups(store,
                 feedbackMatch(store, startDateOf(today, timeRange))))}

\* identifyKnowledgeGaps: the $match of lines 39-45
gapMatch(store) ==
  {id \in DOMAIN store :
     \/ QueryLTE(store[id]["userRating"], 2)
     \/ QueryGTE(store[id]["retryCount"], 2)
     \/ store[id]["flaggedForReview"] = Bool(TRUE)}

gapKey(doc) ==
  [subject |-> doc["subject"], language |-> doc["language"],
   conceptDifficulty |-> doc["conceptDifficulty"]]

\* the accumulators of lines 54-56, without the questions column
gapRow(store, ids, key) ==
  [id |-> key, count |-> Cardinality(ids), avgRetries |-> avgOf(store, ids, "retryCount")]

gapGroups(store, matched) ==
  { gapRow(store, {i \in matched : gapKey(store[i]) = key}, key) :
      key \in {gapKey(store[i]) : i \in matched} }

\* { $sort: { count: -1 } }
sortByCountDescending(rows) ==
  {s \in OrdersOf(rows) : \A i, j \in DOMAIN s : i < j => s[i].count >= s[j].count}

identifyKnowledgeGaps(store) ==
  LET Interaction == Resolve("Interaction")
  IN IF Interaction.threw THEN {Interaction}
     ELSE {Return(gaps) : gaps \in sortByCountDescending(gapGroups(store, gapMatch(store)))}

\* generateTrainingData: the filter of lines 67-71 and the format of 74-95
trainingMatch(store, minRating, maxTokens) ==
  {id \in DOMAIN store :
     /\ QueryGTE(store[id]["userRating"], minRating)
     /\ QueryLTE(store[id]["tokensUsed"], maxTokens)
     /\ IsNumber(store[id]["responseQuality"])
     /\ RatLE(Rat(8, 10), Rat(store[id]["responseQuality"].n, 1))}

formatted(interaction) ==
  [messages |->
     << [role |-> "system", subject |-> interaction["subject"],
         language |-> interaction["language"]],
        [role |-> "user", content |-> interaction["question"]],
        [role |-> "assistant", content |-> interaction["answer"]] >>,
   metadata |->
     [rating |-> interaction["userRating"], subject |-> interaction["subject"],
      language |-> interaction["language"], grade |-> interaction["grade"]]]

generateTrainingData(store, minRating, maxTokens) ==
  LET Interaction == Resolve("Interaction")
  IN IF Interaction.threw THEN {Interaction}
     ELSE {Return([k \in DOMAIN s |-> formatted(store[s[k]])]) :
             s \in OrdersOf(trainingMatch(store, minRating, maxTokens))}

\* shouldFineTune, lines 104-108
lowRatingThreshold == Rat(3, 10)
volumeThreshold == 1000
improvementPotential == Rat(2, 10)

criteria ==
  [lowRatingThreshold |-> lowRatingThreshold, volumeThreshold |-> volumeThreshold,
   improvementPotential |-> improvementPotential]

\* line 114; a group holds at least one document, so the divisor is not 0
lowRatingRatioOf(data) == Rat(data.negativeCount, data.totalInteractions)

\* lines 116-117: both comparisons are strict
Triggers(data) ==
  /\ ~RatLE(lowRatingRatioOf(data), lowRatingThreshold)
  /\ data.totalInteractions > volumeThreshold

\* `${v}` for a string, undefined or null
TemplateString(v) ==
  CASE v.t = "string" -> v.s
    [] v.t = "undefined" -> <<"u","n","d","e","f","i","n","e","d">>
    [] OTHER -> <<"n","u","l","l">>

\* lines 119-124
reasonOf(data) ==
  [category |-> TemplateString(data.id.subject) \o <<"-">>
                  \o TemplateString(data.id.language),
   issue |-> "High negative feedback ratio",
   ratio |-> lowRatingRatioOf(data),
   interactions |-> data.totalInteractions]

\* lines 110-128, on the rows that analyzeUserFeedback(7) resolved to
fineTuneDecision(recentData) ==
  LET hits == SelectSeq(recentData, Triggers)
  IN [shouldTune |-> \E i \in 1..Len(recentData) : Triggers(recentData[i]),
      reasons |-> [i \in 1..Len(hits) |-> reasonOf(hits[i])],
      criteria |-> criteria]

\* line 102: a rejection of analyzeUserFeedback(7) rejects shouldFineTune
shouldFineTune(store, today) ==
  {IF r.threw THEN r ELSE Return(fineTuneDecision(r.v)) :
     r \in analyzeUserFeedback(store, today, Num(7))}

\* An analytics method that writes a score back to the records it read.
storeAfterWriteBack(store) ==
  [id \in DOMAIN store |-> [store[id] EXCEPT !["responseQuality"] = Num(1)]]

\* LearningAnalytics imports db, collection, getDocs, query, where, orderBy
\* and limit (line 2) and calls none of setDoc, addDoc or a delete: a
\* method hands its result to its caller and leaves the collection as it is.
storeAfterAnalytics(store) == store

----------------------------------------------------------------------------
(* The store's state machine.  A behaviour is a sequence of calls, each    *)
(* run to its end, on one InteractionModel and one LearningAnalytics; op,  *)
(* args, ret and errors describe the call that ended last.                 *)

MaxDays == 1

\* The ids addDoc generates, and the session ids callers pass.
AutoIds == {"auto1"}
SessionIds == AutoIds \cup {"session1"}

Maths == Str(<<"m","a","t","h">>)

InteractionData ==
  { [question |-> Str(<<"q","1">>), answer |-> Str(<<"a","1">>),
     language |-> Str(hi), subject |-> Maths, grade |-> Num(5),
     conceptDifficulty |-> Num(1), retryCount |-> Num(0),
     flaggedForReview |-> Bool(FALSE), tokensUsed |-> Num(100)],
    [question |-> Str(<<"q","2">>), answer |-> Str(<<"a","2">>),
     language |-> Str(en), subject |-> Maths, grade |-> Num(5),
     conceptDifficulty |-> Num(2), retryCount |-> Num(2),
     flaggedForReview |-> Bool(FALSE), tokensUsed |-> Num(100),
     timestamp |-> DateOf(-40)] }

FeedbackData ==
  { [userRating |-> Num(2)], [userRating |-> Num(5)], [wasHelpful |-> Bool(TRUE)] }

TimeRanges == {Undefined, Num(7)}

StoreScoreArgs ==
  { <<Str(<<"t","h","e"," ","S","p","e","e","d">>),
      Str(<<"t","h","e"," ","s","p","e","e","d"," ","I","n","d","i","a",".">>),
      Str(en), Maths>>,
    <<Undefined, Undefined, Undefined, Undefined>> }

\* The days new Date() and Timestamp.now() can read at the next call.
Today == {d \in {now, now + 1} : d <= MaxDays}

FirestoreError == [threw |-> TRUE, v |-> <<"FirebaseError">>]

InitStore ==
  /\ op = "none" /\ args = <<>> /\ pc = "idle"
  /\ ret = NoReturn /\ errors = <<>>
  /\ interactions = <<>> /\ now = 0
  /\ calls = <<>> /\ frames = <<>>
  /\ WebIdle

Ended(name, arguments, today, r, log) ==
  /\ op' = name /\ args' = arguments /\ pc' = "returned"
  /\ now' = today
  /\ ret' = r /\ errors' = log
  /\ UNCHANGED <<callVars, webVars>>

\* create, lines 10-28: addDoc resolves with a new id, or rejects and the
\* catch block logs and rethrows.
Create ==
  \E interactionData \in InteractionData, today \in Today :
    LET sanitizedData == sanitizedDataOf(interactionData, today)
    IN \/ \E id \in AutoIds \ DOMAIN interactions :
            /\ interactions' = addDoc(interactions, id, sanitizedData)
            /\ Ended("create", <<interactionData>>, today,
                     Return([id |-> id, data |-> sanitizedData]), <<>>)
       \/ /\ UNCHANGED interactions
          /\ Ended("create", <<interactionData>>, today, FirestoreError,
                   <<"Error saving interaction to Firebase:">>)

\* updateWithFeedback, lines 31-45
UpdateWithFeedback ==
  \E sessionId \in SessionIds, feedbackData \in FeedbackData, today \in Today :
    \/ /\ interactions' = setDocMerge(interactions, sessionId,
                                      feedbackWriteOf(feedbackData, today))
       /\ Ended("updateWithFeedback", <<sessionId, feedbackData>>, today,
                Return(TRUE), <<>>)
    \/ /\ UNCHANGED interactions
       /\ Ended("updateWithFeedback", <<sessionId, feedbackData>>, today,
                FirestoreError, <<"Error updating feedback in Firebase:">>)

\* getBySessionId, lines 48-62
GetBySessionId ==
  \E sessionId \in SessionIds, today \in Today :
    /\ UNCHANGED interactions
    /\ \/ Ended("getBySessionId", <<sessionId>>, today,
                IF sessionId \in DOMAIN interactions
                THEN Return([id |-> sessionId, data |-> interactions[sessionId]])
                ELSE Return(Null),
                <<>>)
       \/ Ended("getBySessionId", <<sessionId>>, today, FirestoreError,
                <<"Error getting interaction from Firebase:">>)

AnalyzeUserFeedback ==
  \E timeRange \in TimeRanges, today \in Today :
    \E r \in analyzeUserFeedback(interactions, today, timeRange) :
      /\ interactions' = storeAfterAnalytics(interactions)
      /\ Ended("analyzeUserFeedback", <<timeRange>>, today, r, <<>>)

IdentifyKnowledgeGaps ==
  \E today \in Today :
    \E r \in identifyKnowledgeGaps(interactions) :
      /\ interactions' = storeAfterAnalytics(interactions)
      /\ Ended("identifyKnowledgeGaps", <<>>, today, r, <<>>)

\* generateTrainingData(minRating = 4, maxTokens = 500), called with defaults
GenerateTrainingData ==
  \E today \in Today :
    \E r \in generateTrainingData(interactions, 4, 500) :
      /\ interactions' = storeAfterAnalytics(interactions)
      /\ Ended("generateTrainingData", <<>>, today, r, <<>>)

ShouldFineTune ==
  \E today \in Today :
    \E r \in shouldFineTune(interactions, today) :
      /\ interactions' = storeAfterAnalytics(interactions)
      /\ Ended("shouldFineTune", <<>>, today, r, <<>>)

\* scoreResponseQuality on each of StoreScoreArgs, called on the instance.
StoreScores ==
  [a \in StoreScoreArgs |-> scoreResponseQuality(TRUE, a[1], a[2], a[3], a[4])]

ScoreResponseQuality ==
  \E a \in StoreScoreArgs, today \in Today :
    LET r == StoreScores[a]
    IN /\ interactions' = storeAfterAnalytics(interactions)
       /\ Ended("scoreResponseQuality", a, today,
                [threw |-> r.threw, overallScore |-> r.overallScore,
                 metrics |-> r.metrics],
                r.log)

NextStore ==
  \/ Create
  \/ UpdateWithFeedback
  \/ GetBySessionId
  \/ AnalyzeUserFeedback
  \/ IdentifyKnowledgeGaps
  \/ GenerateTrainingData
  \/ ShouldFineTune
  \/ ScoreResponseQuality

SpecStore == InitStore /\ [][NextStore]_vars

----------------------------------------------------------------------------
(* Concurrent calls of scoreResponseQuality (lines 132-169)                *)
(* An async call runs until an await, is suspended there, and is resumed   *)
(* later; between two steps of one call any step of another call can run.  *)
(* The call has three awaits (lines 136-138), so it runs in four steps.    *)
(* The values it has computed live in its own activation: frames[c].       *)

MaxCalls == 3

CallIds == 1..MaxCalls

TheSpeed == Str(<<"t","h","e"," ","S","p","e","e","d">>)
TheSpeedIndia ==
  Str(<<"t","h","e"," ","s","p","e","e","d"," ","I","n","d","i","a",".">>)

\* (question, answer, language, subject) of the calls: two that differ in
\* every metric, and one whose language makes two heuristics log an error.
ConcurrentArgs ==
  { <<TheSpeed, TheSpeedIndia, Str(en), Maths>>,
    <<Str(<<"i","s">>), Str(<<"I","n","d","i","a">>), Str(hi), Undefined>>,
    <<TheSpeed, TheSpeedIndia, Str(<<"c","o","n","s","t","r","u","c","t","o","r">>),
      Maths>> }

NoScore == [overallScore |-> Zero, metrics |-> ZeroMetrics]

NoArgs == <<Undefined, Undefined, Undefined, Undefined>>

NoFrame == [relevance |-> Zero, languageQuality |-> Zero, culturalContext |-> Zero]

\* All calls keeping their values in one place, as fields of the instance
\* would be.
sharedFrame(c) == 1

\* const metrics = { ... } is a local of the call: each call has its own.
frameOf(c) == c

\* What each heuristic returns for the arguments a (lines 136-140).
HeuristicsOn ==
  [a \in ConcurrentArgs |->
     [relevance |-> calculateRelevance(OrElse(a[1], EmptyString),
                                       OrElse(a[2], EmptyString)),
      languageQuality |-> assessLanguageQuality(OrElse(a[2], EmptyString),
                                                OrElse(a[3], Str(en))),
      culturalContext |-> assessCulturalRelevance(OrElse(a[2], EmptyString),
                                                  OrElse(a[3], Str(en))),
      completeness |-> assessCompleteness(OrElse(a[2], EmptyString)),
      clarity |-> assessClarity(OrElse(a[2], EmptyString))]]

\* lines 143-161, on the five values of the metrics object
scoreOf(relevance, languageQuality, culturalContext, completeness, clarity) ==
  LET metrics == [relevance |-> validMetric(relevance),
                  languageQuality |-> validMetric(languageQuality),
                  culturalContext |-> validMetric(culturalContext),
                  completeness |-> validMetric(completeness),
                  clarity |-> validMetric(clarity)]
  IN [overallScore |-> validOverall(weightedSum(metrics, Len(MetricNames))),
      metrics |-> metrics]

InitConcurrent ==
  /\ op = "scoreResponseQuality" /\ args = <<>> /\ pc = "called"
  /\ ret = NoReturn /\ errors = <<>>
  /\ interactions = <<>> /\ now = 0
  /\ calls = [c \in CallIds |-> [pc |-> "idle", args |-> NoArgs, result |-> NoScore]]
  /\ frames = [c \in CallIds |-> NoFrame]
  /\ WebIdle

\* A step of call c: it moves to pc next, writes value into field of its
\* frame, and console.error gets the messages of log.
Step(c, next, field, value, log) ==
  /\ calls' = [calls EXCEPT ![c].pc = next]
  /\ frames' = [frames EXCEPT ![frameOf(c)][field] = value]
  /\ errors' = errors \o log
  /\ UNCHANGED <<op, args, pc, ret, storeVars, webVars>>

\* The call, up to the await of line 136.
Start(c) ==
  /\ calls[c].pc = "idle"
  /\ \E a \in ConcurrentArgs :
       LET relevance == HeuristicsOn[a].relevance
       IN /\ calls' = [calls EXCEPT ![c].pc = "await1", ![c].args = a]
          /\ frames' = [frames EXCEPT ![frameOf(c)].relevance = relevance.v]
          /\ errors' = errors \o relevance.log
          /\ UNCHANGED <<op, args, pc, ret, storeVars, webVars>>

\* From the await of line 136 to the await of line 137.
ResumeAfterRelevance(c) ==
  /\ calls[c].pc = "await1"
  /\ LET languageQuality == HeuristicsOn[calls[c].args].languageQuality
     IN Step(c, "await2", "languageQuality", languageQuality.v, languageQuality.log)

\* From the await of line 137 to the await of line 138.
ResumeAfterLanguageQuality(c) ==
  /\ calls[c].pc = "await2"
  /\ LET culturalContext == HeuristicsOn[calls[c].args].culturalContext
     IN Step(c, "await3", "culturalContext", culturalContext.v, culturalContext.log)

\* From the await of line 138 to the return of line 158.
ResumeAfterCulturalContext(c) ==
  /\ calls[c].pc = "await3"
  /\ LET completeness == HeuristicsOn[calls[c].args].completeness
         clarity == HeuristicsOn[calls[c].args].clarity
         mine == frames[frameOf(c)]
     IN /\ calls' = [calls EXCEPT
                       ![c].pc = "done",
                       ![c].result = scoreOf(mine.relevance, mine.languageQuality,
                                             mine.culturalContext,
                                             completeness.v, clarity.v)]
        /\ errors' = errors \o completeness.log \o clarity.log
        /\ UNCHANGED <<op, args, pc, ret, storeVars, frames, webVars>>

NextConcurrent ==
  \E c \in CallIds :
    \/ Start(c)
    \/ ResumeAfterRelevance(c)
    \/ ResumeAfterLanguageQuality(c)
    \/ ResumeAfterCulturalContext(c)

SpecConcurrent == InitConcurrent /\ [][NextConcurrent]_vars

----------------------------------------------------------------------------
(* Properties of scoreResponseQuality                                      *)

ScoreReturned == pc = "returned" /\ op = "scoreResponseQuality"

InUnit(x) == RatLE(Zero, x) /\ RatLE(x, One)

AllZero(metrics) == \A k \in 1..Len(MetricNames) : metrics[MetricNames[k]] = Zero

\* C1: whatever the question, answer, language and subject (empty, missing
\* and wrongly typed ones included), the result of scoreResponseQuality has
\* each of its five metrics in [0,1] and its overallScore in [0,1].
C1_ScoreInUnitRange ==
  ScoreReturned =>
    /\ ~ret.threw
    /\ \A k \in 1..Len(MetricNames) : InUnit(ret.metrics[MetricNames[k]])
    /\ InUnit(ret.overallScore)

\* A call with a missing question whose result has metrics at both ends of
\* the range.
C1_Witness ==
  /\ ScoreReturned
  /\ args[2] = Undefined
  /\ ret.metrics.relevance = Zero
  /\ ret.metrics.culturalContext = One
  /\ ret.metrics.completeness = One

\* C2: overallScore is 0.30 relevance + 0.25 languageQuality + 0.20
\* culturalContext + 0.15 completeness + 0.10 clarity of the metrics
\* returned with it, and the five weights add up to 1.
C2_OverallIsWeightedSum ==
  /\ ScoreReturned =>
       ret.overallScore =
         RatAdd(RatMul(Rat(30, 100), ret.metrics.relevance),
         RatAdd(RatMul(Rat(25, 100), ret.metrics.languageQuality),
         RatAdd(RatMul(Rat(20, 100), ret.metrics.culturalContext),
         RatAdd(RatMul(Rat(15, 100), ret.metrics.completeness),
                RatMul(Rat(10, 100), ret.metrics.clarity)))))
  /\ RatAdd(weights.relevance,
     RatAdd(weights.languageQuality,
     RatAdd(weights.culturalContext,
     RatAdd(weights.completeness, weights.clarity)))) = One

\* A result in which all five metrics are positive and pairwise weighted
\* differently: 0.3 + 0.8 * 0.25 + 0.2 + 0.15 + 0.9 * 0.1 = 0.94.
C2_Witness ==
  /\ ScoreReturned
  /\ ret.metrics.relevance = One
  /\ ret.metrics.languageQuality = Rat(8, 10)
  /\ ret.metrics.culturalContext = One
  /\ ret.metrics.completeness = One
  /\ ret.metrics.clarity = Rat(9, 10)
  /\ ret.overallScore = Rat(94, 100)

HelperMessages ==
  [relevance |-> "Error calculating relevance:",
   languageQuality |-> "Error assessing language quality:",
   culturalContext |-> "Error assessing cultural relevance:",
   completeness |-> "Error assessing completeness:",
   clarity |-> "Error assessing clarity:"]

Logged(msg) == \E i \in 1..Len(errors) : errors[i] = msg

\* C3 as stated: scoreResponseQuality never raises, and whenever any step of
\* the metric computation fails (an error is caught and logged during the
\* call) the result is overallScore 0 with all five metrics 0.
C3_AnyFailureZeroesAll ==
  ScoreReturned =>
    /\ ~ret.threw
    /\ errors # <<>> => ret.overallScore = Zero /\ AllZero(ret.metrics)

\* C3 as amended: scoreResponseQuality never raises; an error that reaches
\* its own catch block yields overallScore 0 with all five metrics 0, and an
\* error caught inside one heuristic sets that heuristic's metric to 0.
C3_FailureZeroesItsMetric ==
  ScoreReturned =>
    /\ ~ret.threw
    /\ Logged("Error in scoreResponseQuality:") =>
         ret.overallScore = Zero /\ AllZero(ret.metrics)
    /\ \A k \in 1..Len(MetricNames) :
         Logged(HelperMessages[MetricNames[k]]) => ret.metrics[MetricNames[k]] = Zero

\* The two heuristics that look the language up failed (a language code
\* that names an inherited property) and the other metrics were still
\* computed.
C3_Witness ==
  /\ ScoreReturned
  /\ errors = <<"Error assessing language quality:",
                "Error assessing cultural relevance:">>
  /\ ret.metrics.languageQuality = Zero
  /\ ret.metrics.culturalContext = Zero
  /\ ret.metrics.relevance = One
  /\ ret.metrics.completeness = One
  /\ ret.overallScore # Zero

----------------------------------------------------------------------------
(* Properties of the heuristics                                            *)

Heuristics ==
  {"calculateRelevance", "assessLanguageQuality", "assessCulturalRelevance",
   "assessCompleteness", "assessClarity"}

ReturnedFrom(name) == pc = "returned" /\ op = name

\* The text arguments of the call: question and answer, or the answer.
TextArgs == IF op = "calculateRelevance" THEN {args[1], args[2]} ELSE {args[1]}

\* C4: a heuristic called with a null, undefined or otherwise non-string
\* text argument returns 0 and does not raise.
C4_NonStringTextGivesZero ==
  (pc = "returned" /\ op \in Heuristics /\ \E a \in TextArgs : ~IsString(a)) =>
    ~ret.threw /\ ret.v = Zero

\* The maximal runs of non-whitespace code units of s, as <<first, last>>.
TokenSpans(s) ==
  {sp \in (1..Len(s)) \X (1..Len(s)) :
     /\ sp[1] <= sp[2]
     /\ \A k \in sp[1]..sp[2] : s[k] \notin WhiteSpace
     /\ sp[1] = 1 \/ s[sp[1] - 1] \in WhiteSpace
     /\ sp[2] = Len(s) \/ s[sp[2] + 1] \in WhiteSpace}

TokenAt(s, sp) == SubSeq(s, sp[1], sp[2])

\* C5: calculateRelevance returns 0 when the question is empty, the answer
\* is empty or no whitespace-separated question token is longer than 2;
\* otherwise the number of lower-cased question tokens longer than 2 that
\* equal a lower-cased token of the answer (each occurrence counted) over
\* the number of question tokens longer than 2.
C5_RelevanceIsOverlapRatio ==
  (ReturnedFrom("calculateRelevance") /\ IsString(args[1]) /\ IsString(args[2])) =>
    LET q == toLowerCase(args[1].s)
        a == toLowerCase(args[2].s)
        qualifying == {sp \in TokenSpans(q) : sp[2] - sp[1] + 1 > 2}
        matched == {sp \in qualifying :
                      \E ap \in TokenSpans(a) : TokenAt(a, ap) = TokenAt(q, sp)}
    IN ret.v = IF Len(q) = 0 \/ Len(a) = 0 \/ qualifying = {} THEN Zero
               ELSE Rat(Cardinality(matched), Cardinality(qualifying))

\* "the is the" against "the speed": both occurrences of "the" count, "is"
\* does not qualify, so 2 of 2.  "Speed the" against "the ": 1 of 2.
C5_Witness ==
  /\ ReturnedFrom("calculateRelevance")
  /\ args[1] = Str(<<"S","p","e","e","d"," ","t","h","e">>)
  /\ args[2] = Str(<<"t","h","e"," ">>)
  /\ ret.v = Rat(1, 2)

\* C6 as stated: calculateRelevance("What is the speed of light",
\* "The speed of light is constant") returns 2/3.
C6_SpeedOfLightIsTwoThirds ==
  (ReturnedFrom("calculateRelevance")
     /\ args = <<Str(SpeedOfLightQuestion), Str(SpeedOfLightAnswer)>>) =>
    ret.v = Rat(2, 3)

\* C6 as amended: it returns 3/4.  The question tokens longer than 2 are
\* "what", "the", "speed" and "light" ("the" has 3 code units and passes the
\* length rule); "the", "speed" and "light" are tokens of the answer.
C6_SpeedOfLightIsThreeQuarters ==
  (ReturnedFrom("calculateRelevance")
     /\ args = <<Str(SpeedOfLightQuestion), Str(SpeedOfLightAnswer)>>) =>
    ret.v = Rat(3, 4)

C6_Witness ==
  /\ ReturnedFrom("calculateRelevance")
  /\ args = <<Str(SpeedOfLightQuestion), Str(SpeedOfLightAnswer)>>
  /\ ret.v = Rat(3, 4)

\* C7: assessLanguageQuality returns 0 for an empty answer, 0.8 when a
\* marker word of the language's list is a case-sensitive substring of the
\* answer and 0.4 otherwise, with the English list for every language code
\* other than hi, en and ta.
C7_LanguageQualityByMarkers ==
  (ReturnedFrom("assessLanguageQuality") /\ IsString(args[1])) =>
    LET list == IF args[2] \in {Str(hi), Str(en), Str(ta)} THEN checks[args[2].s]
                ELSE checks[en]
    IN ret.v = IF Len(args[1].s) = 0 THEN Zero
               ELSE IF \E k \in 1..Len(list) : includes(args[1].s, list[k])
                    THEN Rat(8, 10)
                    ELSE Rat(4, 10)

\* w occurs in s as a substring, letter case ignored.
OccursIgnoringCase(s, w) ==
  \E i \in 1..(Len(s) - Len(w) + 1) :
    \A k \in 1..Len(w) : LowerChar(s[i + k - 1]) = LowerChar(w[k])

\* C8: assessCulturalRelevance returns min(m / 2, 1), m being the number of
\* distinct entries of the language's cultural-marker list that occur in the
\* answer, letter case ignored; it returns 0 for an empty answer and for
\* every language code other than hi and en.
C8_CulturalIsHalfPerMarker ==
  (ReturnedFrom("assessCulturalRelevance") /\ IsString(args[1])) =>
    LET list == IF args[2] \in {Str(hi), Str(en)} THEN culturalMarkers[args[2].s]
                ELSE <<>>
        m == Cardinality({list[k] : k \in {j \in 1..Len(list) :
                                             OccursIgnoringCase(args[1].s, list[j])}})
    IN ret.v = IF Len(args[1].s) = 0 THEN Zero
               ELSE IF m >= 2 THEN One
               ELSE Rat(m, 2)

\* "IndiaIndia": one marker, twice, gives 0.5.
C8_Witness ==
  /\ ReturnedFrom("assessCulturalRelevance")
  /\ args = <<Str(<<"I","n","d","i","a","I","n","d","i","a">>), Str(en)>>
  /\ ret.v = Rat(1, 2)

\* C9 as stated: assessCompleteness returns 0 for an empty answer and
\* otherwise 0.5 if the answer ends with one of the marks plus 0.5 if the
\* answer is longer than 50.
C9_CompletenessByLastCodeUnit ==
  (ReturnedFrom("assessCompleteness") /\ IsString(args[1])) =>
    LET s == args[1].s
    IN ret.v = IF Len(s) = 0 THEN Zero
               ELSE RatAdd(IF s[Len(s)] \in {"U0964", ".", "!"} THEN Rat(1, 2) ELSE Zero,
                           IF Len(s) > 50 THEN Rat(1, 2) ELSE Zero)

\* C9 as amended: 0 for an empty answer and otherwise 0.5 if the answer,
\* with the whitespace at its end left out, ends with one of the marks,
\* plus 0.5 if the (whole) answer is longer than 50; the result is one of
\* 0, 0.5 and 1, and "Short." gives 0.5.
C9_CompletenessByLastVisibleCodeUnit ==
  (ReturnedFrom("assessCompleteness") /\ IsString(args[1])) =>
    LET s == args[1].s
        endsWithMark ==
          \E i \in 1..Len(s) :
            /\ s[i] \in {"U0964", ".", "!"}
            /\ \A k \in (i + 1)..Len(s) : s[k] \in WhiteSpace
    IN /\ ret.v = IF Len(s) = 0 THEN Zero
                  ELSE RatAdd(IF endsWithMark THEN Rat(1, 2) ELSE Zero,
                              IF Len(s) > 50 THEN Rat(1, 2) ELSE Zero)
       /\ ret.v \in {Zero, Rat(1, 2), One}
       /\ s = ShortAnswer => ret.v = Rat(1, 2)

\* "Hi!" followed by a line feed: the mark is not the last code unit, and
\* the conclusion term is given all the same.
C9_Witness ==
  /\ ReturnedFrom("assessCompleteness")
  /\ args = <<Str(ExclaimedAnswer)>>
  /\ ret.v = Rat(1, 2)

\* The step function of the clarity score on a mean of total / count.
ClaritySteps(total, count) ==
  IF total > 150 * count THEN Rat(3, 10)
  ELSE IF total > 100 * count THEN Rat(6, 10)
  ELSE IF total > 50 * count THEN Rat(9, 10)
  ELSE Rat(7, 10)

\* The first code units of the fragments that remain: the maximal runs of
\* code units other than sentence marks that are not all whitespace.
FragmentStarts(s) ==
  {i \in 1..Len(s) :
     /\ s[i] \notin SentenceMarks
     /\ i = 1 \/ s[i - 1] \in SentenceMarks
     /\ \E j \in i..Len(s) :
          /\ s[j] \notin SentenceMarks \cup WhiteSpace
          /\ \A k \in i..j : s[k] \notin SentenceMarks}

RECURSIVE SumOfLengths(_)
SumOfLengths(pieces) ==
  IF pieces = <<>> THEN 0 ELSE Len(Head(pieces)) + SumOfLengths(Tail(pieces))

\* C10 as stated: assessClarity returns 0 when no fragment remains and
\* otherwise the step value of the mean length of the remaining fragments.
C10_ClarityByMeanFragmentLength ==
  (ReturnedFrom("assessClarity") /\ IsString(args[1])) =>
    LET s == args[1].s
        count == Cardinality(FragmentStarts(s))
    IN ret.v = IF count = 0 THEN Zero
               ELSE ClaritySteps(SumOfLengths(sentencesOf(s)), count)

\* C10 as amended: assessClarity splits the answer on runs of the four
\* marks, discards the fragments that are empty after trimming, returns 0
\* when none remains, and otherwise returns the step value of (length of the
\* whole answer, marks and discarded fragments included) / (number of
\* remaining fragments): > 150 gives 0.3, > 100 gives 0.6, > 50 gives 0.9,
\* anything else 0.7.
C10_ClarityByAnswerLengthPerFragment ==
  (ReturnedFrom("assessClarity") /\ IsString(args[1])) =>
    LET s == args[1].s
        count == Cardinality(FragmentStarts(s))
    IN ret.v = IF count = 0 THEN Zero ELSE ClaritySteps(Len(s), count)

\* Fifty letters and a full stop: one fragment of 50, an answer of 51.
C10_Witness ==
  /\ ReturnedFrom("assessClarity")
  /\ args = <<Str(Filler(50) \o <<".">>)>>
  /\ ret.v = Rat(9, 10)

----------------------------------------------------------------------------
(* Properties of the feedback queries                                      *)

\* The window a call of analyzeUserFeedback(timeRange) looks back over.
WindowOf(timeRange) == IF timeRange.t = "undefined" THEN 30 ELSE timeRange.n

\* The stored records dated within the last days days.
Considered(days) ==
  {id \in DOMAIN interactions :
     /\ IsDate(interactions[id]["timestamp"])
     /\ interactions[id]["timestamp"].n >= now - days}

SegmentOf(id) ==
  [language |-> interactions[id]["language"], subject |-> interactions[id]["subject"],
   grade |-> interactions[id]["grade"]]

SegmentsOf(ids) == {SegmentOf(id) : id \in ids}

MembersOf(ids, segment) == {id \in ids : SegmentOf(id) = segment}

RatedAtLeast(id, k) ==
  IsNumber(interactions[id]["userRating"]) /\ interactions[id]["userRating"].n >= k

RatedAtMost(id, k) ==
  IsNumber(interactions[id]["userRating"]) /\ interactions[id]["userRating"].n <= k

NegativesOf(ids) == Cardinality({id \in ids : RatedAtMost(id, 2)})

\* negatives / total > 0.3 and total > 1000
TripsRule(negatives, total) == 10 * negatives > 3 * total /\ total > 1000

TriggeringSegments ==
  {segment \in SegmentsOf(Considered(7)) :
     LET members == MembersOf(Considered(7), segment)
     IN TripsRule(NegativesOf(members), Cardinality(members))}

\* C12: a call of shouldFineTune returns a decision, and its shouldTune is
\* true exactly when some segment of the records of the last 7 days has
\* negativeCount / totalInteractions > 0.3 and totalInteractions > 1000.
C12_TunesIffSegmentTripsRule ==
  ReturnedFrom("shouldFineTune") =>
    /\ ~ret.threw
    /\ ret.v.shouldTune <=> (TriggeringSegments # {})

\* C13: the reasons that shouldFineTune returns are one entry for each
\* segment that trips the rule and no other entry, each with that segment's
\* negative ratio and its totalInteractions, and shouldTune is true exactly
\* when the list is not empty.
C13_ReasonsAreTriggeringSegments ==
  ReturnedFrom("shouldFineTune") =>
    /\ ~ret.threw
    /\ LET reasons == ret.v.reasons
       IN /\ Len(reasons) = Cardinality(TriggeringSegments)
          /\ \A segment \in TriggeringSegments :
               LET members == MembersOf(Considered(7), segment)
               IN \E i \in 1..Len(reasons) :
                    /\ reasons[i].category =
                         TemplateString(segment.subject) \o <<"-">>
                           \o TemplateString(segment.language)
                    /\ reasons[i].ratio = Rat(NegativesOf(members), Cardinality(members))
                    /\ reasons[i].interactions = Cardinality(members)
          /\ ret.v.shouldTune <=> (Len(reasons) > 0)

\* C14: a call of analyzeUserFeedback returns rows, and of any two rows the
\* one with the lower avgRating comes first.
C14_RowsAscendingByAvgRating ==
  ReturnedFrom("analyzeUserFeedback") =>
    /\ ~ret.threw
    /\ \A i, j \in 1..Len(ret.v) :
         (/\ i < j
          /\ ~IsNullAvg(ret.v[i].avgRating)
          /\ ~IsNullAvg(ret.v[j].avgRating))
           => RatLE(ret.v[i].avgRating, ret.v[j].avgRating)

\* C15: in every row that analyzeUserFeedback returns, positiveCount is the
\* number of the segment's records rated 4 or more, negativeCount the number
\* rated 2 or less, and the two together are at most totalInteractions.
C15_CountsByRating ==
  ReturnedFrom("analyzeUserFeedback") =>
    /\ ~ret.threw
    /\ \A i \in 1..Len(ret.v) :
         LET members == MembersOf(Considered(WindowOf(args[1])), ret.v[i].id)
         IN /\ ret.v[i].positiveCount = Cardinality({id \in members : RatedAtLeast(id, 4)})
            /\ ret.v[i].negativeCount = Cardinality({id \in members : RatedAtMost(id, 2)})
            /\ ret.v[i].positiveCount + ret.v[i].negativeCount
                 <= ret.v[i].totalInteractions

RECURSIVE TotalOf(_, _)
TotalOf(rows, k) ==
  IF k = 0 THEN 0 ELSE TotalOf(rows, k - 1) + rows[k].totalInteractions

\* C16: analyzeUserFeedback(timeRange) returns one row for each combination
\* of (language, subject, grade) among the records of the last timeRange
\* days (30 by default) and no other row; a row's totalInteractions is the
\* number of those records in its combination, and the rows' totals add up
\* to the number of those records.
C16_RowsPartitionTheWindow ==
  ReturnedFrom("analyzeUserFeedback") =>
    /\ ~ret.threw
    /\ LET considered == Considered(WindowOf(args[1]))
           rows == ret.v
       IN /\ {rows[i].id : i \in 1..Len(rows)} = SegmentsOf(considered)
          /\ \A i, j \in 1..Len(rows) : rows[i].id = rows[j].id => i = j
          /\ \A i \in 1..Len(rows) :
               rows[i].totalInteractions = Cardinality(MembersOf(considered, rows[i].id))
          /\ TotalOf(rows, Len(rows)) = Cardinality(considered)

\* The records that show a knowledge gap.
Selected ==
  {id \in DOMAIN interactions :
     \/ RatedAtMost(id, 2)
     \/ (IsNumber(interactions[id]["retryCount"]) /\ interactions[id]["retryCount"].n >= 2)
     \/ interactions[id]["flaggedForReview"] = Bool(TRUE)}

GapOf(id) ==
  [subject |-> interactions[id]["subject"], language |-> interactions[id]["language"],
   conceptDifficulty |-> interactions[id]["conceptDifficulty"]]

\* C17: identifyKnowledgeGaps returns one group for each combination of
\* (subject, language, conceptDifficulty) among the records with
\* userRating <= 2 or retryCount >= 2 or flaggedForReview = true, its count
\* the number of those records in the group, the larger count first.
C17_GapsGroupedAndDescending ==
  ReturnedFrom("identifyKnowledgeGaps") =>
    /\ ~ret.threw
    /\ LET gaps == ret.v
       IN /\ {gaps[i].id : i \in 1..Len(gaps)} = {GapOf(id) : id \in Selected}
          /\ \A i, j \in 1..Len(gaps) : gaps[i].id = gaps[j].id => i = j
          /\ \A i \in 1..Len(gaps) :
               gaps[i].count = Cardinality({id \in Selected : GapOf(id) = gaps[i].id})
          /\ \A i, j \in 1..Len(gaps) : i < j => gaps[i].count >= gaps[j].count

----------------------------------------------------------------------------
(* Properties of the stored records                                        *)

\* The fields a feedback submission carries.
FeedbackFields == {"userRating", "wasHelpful"}

AnalyticsOperations ==
  { "scoreResponseQuality", "analyzeUserFeedback", "identifyKnowledgeGaps",
    "generateTrainingData", "shouldFineTune" }

\* C19: a call of an analytics operation leaves the collection as it was:
\* no record is created, changed or deleted.  (The model has no operation
\* that starts a retraining, as the source has none.)
C19_AnalyticsLeaveRecordsUnchanged ==
  [][op' \in AnalyticsOperations => interactions' = interactions]_vars

\* The scorer has returned a score while the collection holds a rated record.
C19_Witness ==
  /\ op = "scoreResponseQuality" /\ pc = "returned"
  /\ ret.overallScore # Zero
  /\ \E id \in DOMAIN interactions : IsNumber(interactions[id]["userRating"])

----------------------------------------------------------------------------
(* Properties of concurrent calls                                          *)

Finished(c) == calls[c].pc = "done"

\* The result of one call with the arguments a, run from call to return
\* with no other call in flight.
RunAlone ==
  [a \in ConcurrentArgs |->
     LET r == scoreResponseQuality(TRUE, a[1], a[2], a[3], a[4])
     IN [overallScore |-> r.overallScore, metrics |-> r.metrics]]

LanguageThenCulture ==
  <<"Error assessing language quality:", "Error assessing cultural relevance:">>

\* C11: any two calls of scoreResponseQuality that were given the same
\* (question, answer, language, subject) and have returned, whatever ran
\* between their steps, returned the same overallScore and the same metrics.
C11_SameInputsSameScore ==
  \A c, d \in CallIds :
    (Finished(c) /\ Finished(d) /\ calls[c].args = calls[d].args)
      => calls[c].result = calls[d].result

\* Two calls with the same arguments and a call with other arguments
\* between them have all returned, and the first two gave a score above 0.
C11_Witness ==
  /\ \A c \in 1..3 : Finished(c)
  /\ calls[1].args = calls[3].args
  /\ calls[2].args # calls[1].args
  /\ calls[2].result # calls[1].result
  /\ calls[1].result.overallScore # Zero

\* C20: a call that has returned, however its steps were interleaved with
\* those of the other calls, returned what the same call returns when run
\* alone; and a step of one call changes the position and the values of no
\* other call.
C20_InterleavedAsAlone ==
  /\ [](\A c \in CallIds : Finished(c) => calls[c].result = RunAlone[calls[c].args])
  /\ [][\E c \in CallIds :
          \A d \in CallIds \ {c} : calls'[d] = calls[d] /\ frames'[d] = frames[d]]_vars

\* Two calls ran their steps alternately (the console shows both language
\* errors before both culture errors); one has returned, the other is at
\* its last await.
C20_Witness ==
  /\ Finished(1)
  /\ calls[2].pc = "await3"
  /\ errors = <<LanguageThenCulture[1], LanguageThenCulture[1],
                LanguageThenCulture[2], LanguageThenCulture[2]>>

----------------------------------------------------------------------------
(* Properties of the largest scores                                        *)

\* The language argument is a code other than 'hi' and 'en'.  A call without
\* a language is scored as 'en', the default of the parameter.
OtherLanguage == IsString(args[4]) /\ args[4] \notin {Str(hi), Str(en)}

\* C30: overallScore is at most 0.94 for every input; for every language
\* other than 'hi' and 'en' culturalContext is 0 and overallScore is at most
\* 0.74, so that the score stays below the 0.8 that generateTrainingData
\* asks of responseQuality.
C30_OverallAtMost94AndOthers74 ==
  ScoreReturned =>
    /\ RatLE(ret.overallScore, Rat(94, 100))
    /\ OtherLanguage =>
         /\ ret.metrics.culturalContext = Zero
         /\ RatLE(ret.overallScore, Rat(74, 100))
         /\ ~RatLE(Rat(8, 10), ret.overallScore)

\* An answer in Bengali that reaches 0.74: every metric but culturalContext
\* is at its largest value.
C30_Witness ==
  /\ ScoreReturned
  /\ args[4] = Str(<<"b","n">>)
  /\ ret.metrics.languageQuality = Rat(8, 10)
  /\ ret.overallScore = Rat(74, 100)

----------------------------------------------------------------------------
(* The server: configuration tables                                        *)

LANGUAGE_CONFIG ==
  (<<"h","i">> :> [name |-> <<"H","i","n","d","i">>]) @@
  (<<"t","a">> :> [name |-> <<"T","a","m","i","l">>]) @@
  (<<"b","n">> :> [name |-> <<"B","e","n","g","a","l","i">>]) @@
  (<<"t","e">> :> [name |-> <<"T","e","l","u","g","u">>]) @@
  (<<"m","r">> :> [name |-> <<"M","a","r","a","t","h","i">>]) @@
  (<<"g","u">> :> [name |-> <<"G","u","j","a","r","a","t","i">>]) @@
  (<<"k","n">> :> [name |-> <<"K","a","n","n","a","d","a">>]) @@
  (<<"m","l">> :> [name |-> <<"M","a","l","a","y","a","l","a","m">>]) @@
  (<<"e","n">> :> [name |-> <<"E","n","g","l","i","s","h">>])

math == <<"m","a","t","h">>
physics == <<"p","h","y","s","i","c","s">>
chemistry == <<"c","h","e","m","i","s","t","r","y">>
general == <<"g","e","n","e","r","a","l">>

SUBJECT_CONFIG ==
  (math :>
     [name |-> <<"M","a","t","h","e","m","a","t","i","c","s">>,
      keywords |->
       << <<"m","a","t","h">>,
          <<"a","l","g","e","b","r","a">>,
          <<"g","e","o","m","e","t","r","y">>,
          <<"c","a","l","c","u","l","u","s">>,
          <<"t","r","i","g","o","n","o","m","e","t","r","y">>,
          <<"a","r","i","t","h","m","e","t","i","c">>,
          <<"e","q","u","a","t","i","o","n">>,
          <<"f","o","r","m","u","l","a">>,
          <<"t","h","e","o","r","e","m">>,
          <<"p","r","o","o","f">> >>]) @@
  (physics :>
     [name |-> <<"P","h","y","s","i","c","s">>,
      keywords |->
       << <<"p","h","y","s","i","c","s">>,
          <<"f","o","r","c","e">>,
          <<"e","n","e","r","g","y">>,
          <<"m","o","t","i","o","n">>,
          <<"e","l","e","c","t","r","i","c","i","t","y">>,
          <<"m","a","g","n","e","t","i","s","m">>,
          <<"w","a","v","e","s">>,
          <<"o","p","t","i","c","s">>,
          <<"t","h","e","r","m","o","d","y","n","a","m","i","c","s">>,
          <<"m","e","c","h","a","n","i","c","s">> >>]) @@
  (chemistry :>
     [name |-> <<"C","h","e","m","i","s","t","r","y">>,
      keywords |->
       << <<"c","h","e","m","i","s","t","r","y">>,
          <<"e","l","e","m","e","n","t">>,
          <<"c","o","m","p","o","u","n","d">>,
          <<"r","e","a","c","t","i","o","n">>,
          <<"b","o","n","d">>,
          <<"m","o","l","e","c","u","l","e">>,
          <<"a","t","o","m">>,
          <<"p","e","r","i","o","d","i","c">>,
          <<"a","c","i","d">>,
          <<"b","a","s","e">> >>]) @@
  (general :>
     [name |-> <<"G","e","n","e","r","a","l"," ","S","t","u","d","i","e","s">>,
      keywords |->
       <<  >>])

\* Object.entries(SUBJECT_CONFIG): the keys in the order of the literal.
subjectEntries == <<math, physics, chemistry, general>>

GRADE_CONFIG ==
  (<<"6">> :> [name |-> <<"C","l","a","s","s"," ","6">>]) @@
  (<<"7">> :> [name |-> <<"C","l","a","s","s"," ","7">>]) @@
  (<<"8">> :> [name |-> <<"C","l","a","s","s"," ","8">>]) @@
  (<<"9">> :> [name |-> <<"C","l","a","s","s"," ","9">>]) @@
  (<<"1","0">> :> [name |-> <<"C","l","a","s","s"," ","1","0">>]) @@
  (<<"1","1">> :> [name |-> <<"C","l","a","s","s"," ","1","1">>]) @@
  (<<"1","2">> :> [name |-> <<"C","l","a","s","s"," ","1","2">>])

DigitChars == <<"0","1","2","3","4","5","6","7","8","9">>

\* Number.prototype.toString of a non-negative integer.
RECURSIVE Digits(_)
Digits(n) ==
  IF n < 10 THEN <<DigitChars[n + 1]>>
  ELSE Digits(n \div 10) \o <<DigitChars[(n % 10) + 1]>>

\* ToPropertyKey of a value used as table[key]: a number is looked up by its
\* decimal digits, so that GRADE_CONFIG[6] and GRADE_CONFIG['6'] are the
\* same property.
PropertyKey(v) == IF v.t = "number" THEN Str(Digits(v.n)) ELSE v

\* The name property of what a table holds under key: of the literal's own
\* entry, or of the function inherited from Object.prototype (the function
\* Object under 'constructor', else a function named as its key).
nameOf(table, key) ==
  LET found == Lookup(table, PropertyKey(key))
  IN IF found.kind = "own" THEN found.list.name
     ELSE IF PropertyKey(key).s = <<"c","o","n","s","t","r","u","c","t","o","r">>
          THEN <<"O","b","j","e","c","t">>
     ELSE PropertyKey(key).s

\* !table[key]: neither the literal nor Object.prototype has the property.
NotIn(table, key) == Lookup(table, PropertyKey(key)).kind = "undefined"

----------------------------------------------------------------------------
(* The server: detectSubject and generateAnswer                            *)

\* config.keywords.some(keyword => lowerQuestion.includes(keyword))
hasKeyword(lowerQuestion, subject) ==
  \E k \in 1..Len(SUBJECT_CONFIG[subject].keywords) :
     includes(lowerQuestion, SUBJECT_CONFIG[subject].keywords[k])

\* The first subject, in the order of the table and 'general' skipped, one
\* of whose keywords the lower-cased question contains; 'general' if there
\* is none.  A question that is no string has no toLowerCase method.
detectSubject(question) ==
  IF ~IsString(question) THEN Throw
  ELSE LET lowerQuestion == toLowerCase(question.s)
           Detected(subject) ==
             subject # general /\ hasKeyword(lowerQuestion, subject)
           found == SelectSeq(subjectEntries, Detected)
       IN Return(Str(IF found = <<>> THEN general ELSE Head(found)))

\* (SUBJECT_CONFIG[detectedSubject] || SUBJECT_CONFIG.general).name
subjectNameOf(detectedSubject) ==
  IF NotIn(SUBJECT_CONFIG, detectedSubject) THEN SUBJECT_CONFIG[general].name
  ELSE nameOf(SUBJECT_CONFIG, detectedSubject)

\* generateAnswer up to its call of the OpenAI API: subject ||
\* detectSubject(question), the subject's configuration, and
\* question.toLowerCase(), which throws for a question that is no string.
generateAnswerStart(question, subject) ==
  LET detected == IF Truthy(subject) THEN Return(subject)
                  ELSE detectSubject(question)
  IN IF detected.threw \/ ~IsString(question) THEN Throw
     ELSE Return([subject |-> detected.v,
                  subjectName |-> subjectNameOf(detected.v)])

incompleteIndicators ==
  << <<".",".",".">>,
     <<"U0964","U0964">>,
     <<"U0914","U0930">>,
     <<"U0924","U094B">>,
     <<"U0932","U0947","U0915","U093F","U0928">>,
     <<"U0907","U0938","U0932","U093F","U090F">>,
     <<"U0915","U094D","U092F","U094B","U0902","U0915","U093F">> >>

\* The sentence appended to an answer that seems incomplete.
completion ==
  <<" ","U0909","U092E","U094D","U092E","U0940","U0926"," ","U0939","U0948",
    " ","U0915","U093F"," ","U0905","U092C"," ","U0906","U092A","U0915",
    "U094B"," ","U092F","U0939"," ","U0938","U092E","U091D"," ","U0906"," ",
    "U0917","U092F","U093E"," ","U0939","U094B","U0917","U093E","U0964"," ",
    "U0905","U0917","U0930"," ","U0915","U094B","U0908"," ","U0914","U0930",
    " ","U0938","U0935","U093E","U0932"," ","U0939","U0948"," ","U0924",
    "U094B"," ","U092A","U0942","U091B","U093F","U090F","!">>

\* String.prototype.endsWith
endsWith(s, w) ==
  Len(w) <= Len(s) /\ SubSeq(s, Len(s) - Len(w) + 1, Len(s)) = w

\* The number of code units above which an answer has to end a sentence.
LongAnswer == 500

\* A check that finds every answer complete.
neverNeedsCompletion(answer) == FALSE

\* The condition of the if statement: the answer ends with an indicator, or
\* it is long and ends with none of the three sentence ends.
needsCompletion(answer) ==
  \/ \E k \in 1..Len(incompleteIndicators) :
        endsWith(answer, incompleteIndicators[k])
  \/ /\ Len(answer) > LongAnswer
     /\ ~endsWith(answer, <<"U0964">>)
     /\ ~endsWith(answer, <<".">>)
     /\ ~endsWith(answer, <<"!">>)

\* generateAnswer after the API has resolved with content as the message's
\* content: trim it and append the completion if it is needed.  A content
\* that is no string (null) has no trim method; the catch block rethrows.
completeAnswer(content) ==
  IF ~IsString(content) THEN Throw
  ELSE LET answer == trim(content.s)
       IN Return(IF needsCompletion(answer) THEN answer \o completion
                 ELSE answer)

----------------------------------------------------------------------------
(* The server: POST /api/ask                                               *)
(* ask holds the request body, the point the handler has reached (phase),  *)
(* the 60 second timer (unset, armed, fired or cleared), the responses the *)
(* handler has sent, how generation and synthesis ended, the content the   *)
(* API returned and the result of generateAnswer.                          *)

\* A destructuring default: it replaces a missing property only.
Default(v, dflt) == IF v = Undefined THEN dflt ELSE v

questionOf(body) == body.question
languageOf(body) == Default(body.language, Str(hi))
subjectOf(body) == Default(body.subject, Null)
gradeOf(body) == Default(body.grade, Null)

NoError == "none"

\* The three checks before the timer is set, in their order.
validationError(body) ==
  IF ~Truthy(questionOf(body)) THEN "Question is required"
  ELSE IF NotIn(LANGUAGE_CONFIG, languageOf(body)) THEN "Unsupported language"
  ELSE IF Truthy(gradeOf(body)) /\ NotIn(GRADE_CONFIG, gradeOf(body))
       THEN "Unsupported grade level"
  ELSE NoError

NoResult == [answer |-> <<>>, subject |-> Null, subjectName |-> <<>>]

Response(status, error, result) ==
  [status |-> status, error |-> error, answer |-> result.answer,
   subject |-> result.subject, subjectName |-> result.subjectName]

\* A response object that never reports its headers as sent.
headersNeverSent(responses) == FALSE

\* res.headersSent
headersSent(responses) == Len(responses) > 0

\* if (!res.headersSent) res.status(...).json(...)
send(responses, response) ==
  IF headersSent(responses) THEN responses ELSE Append(responses, response)

\* A clearTimeout that leaves the timer as it is.
keepTimeout(timer) == timer

\* if (timeoutHandle) clearTimeout(timeoutHandle): a timer that is armed
\* will not fire; one that has fired, or was never set, is left as it is.
clearTimeout(timer) == IF timer = "armed" THEN "cleared" ELSE timer

\* The catch block of the handler.
caught(a) ==
  [a EXCEPT !.timer = clearTimeout(@),
            !.responses = send(@, Response(500, "Internal server error", NoResult)),
            !.phase = "done"]

AskQuestions ==
  { Undefined, Str(<<>>), Num(5),
    Str(<<"f","o","r","c","e"," ","e","q","u","a","t","i","o","n">>),
    Str(<<"W","h","a","t"," ","i","s"," ","E","n","e","r","g","y">>),
    Str(<<"I","s"," ","w","a","t","e","r"," ","a","n"," ","A","c","i","d">>),
    Str(<<"h","e","l","l","o">>) }

AskLanguages ==
  { Undefined, Str(ta), Str(<<"x","x">>),
    Str(<<"c","o","n","s","t","r","u","c","t","o","r">>) }

AskSubjects ==
  { Undefined, Str(physics), Str(<<"h","i","s","t","o","r","y">>),
    Str(<<"c","o","n","s","t","r","u","c","t","o","r">>) }

AskGrades == { Undefined, Num(0), Num(6), Num(13) }

AskBodies ==
  [question : AskQuestions, language : AskLanguages,
   subject : AskSubjects, grade : AskGrades]

\* What the API may return as the content of its message.
AskContents ==
  { Null,
    Str(<<" ","o","k","."," ">>),
    Str(<<"a","n","d"," ","s","o",".",".",".">>),
    Str(<<"o","k"," ","U0914","U0930">>),
    Str(<<"o","k","U0964","U0964">>),
    Str(Filler(LongAnswer)),
    Str(Filler(LongAnswer + 1)),
    Str(Filler(LongAnswer) \o <<".">>) }

NewAsk(body) ==
  [body |-> body, phase |-> "received", timer |-> "unset",
   responses |-> <<>>, generation |-> "pending", speech |-> "pending",
   content |-> Undefined, result |-> NoResult]

InitAsk ==
  /\ AnalyticsIdle
  /\ \E body \in AskBodies : ask = NewAsk(body)
  /\ upload = <<>> /\ voice = <<>> /\ form = <<>>

AskStep(a) == ask' = a /\ UNCHANGED <<analyticsVars, upload, voice, form>>

\* The handler from its start to its first wait: a request that fails a
\* check is answered with 400 and nothing else happens; otherwise the timer
\* is set and generateAnswer runs up to its call of the API.  If it throws
\* before that, the rejection is caught before any timer can fire.
Receive ==
  /\ ask.phase = "received"
  /\ LET error == validationError(ask.body)
         armed == [ask EXCEPT !.timer = "armed"]
         started == generateAnswerStart(questionOf(ask.body), subjectOf(ask.body))
     IN IF error # NoError
        THEN AskStep([ask EXCEPT !.responses = Append(@, Response(400, error, NoResult)),
                                 !.phase = "done"])
        ELSE IF started.threw
        THEN AskStep(caught([armed EXCEPT !.generation = "failed"]))
        ELSE AskStep([armed EXCEPT !.phase = "generating",
                                   !.result = [answer |-> <<>>,
                                               subject |-> started.v.subject,
                                               subjectName |-> started.v.subjectName]])

\* The API resolves: generateAnswer finishes the answer and returns, and
\* the handler calls convertTextToSpeech, which waits for the synthesis.
OpenAIResolves(content) ==
  /\ ask.phase = "generating"
  /\ LET completed == completeAnswer(content)
         got == [ask EXCEPT !.content = content]
     IN IF completed.threw
        THEN AskStep(caught([got EXCEPT !.generation = "failed"]))
        ELSE AskStep([got EXCEPT !.generation = "ok",
                                 !.result.answer = completed.v,
                                 !.phase = "synthesizing"])

\* The API rejects: generateAnswer throws 'Failed to generate answer'.
OpenAIRejects ==
  /\ ask.phase = "generating"
  /\ AskStep(caught([ask EXCEPT !.generation = "failed"]))

\* synthesizeSpeech resolves: convertTextToSpeech writes the audio file.
SpeechResolves ==
  /\ ask.phase = "synthesizing"
  /\ AskStep([ask EXCEPT !.phase = "writing"])

\* synthesizeSpeech rejects: convertTextToSpeech throws 'Failed to generate
\* audio'.
SpeechRejects ==
  /\ ask.phase = "synthesizing"
  /\ AskStep(caught([ask EXCEPT !.speech = "failed"]))

\* The file is written: the handler clears the timer and sends the answer
\* unless a response has been sent.
WriteResolves ==
  /\ ask.phase = "writing"
  /\ AskStep([ask EXCEPT !.speech = "ok",
                         !.timer = clearTimeout(@),
                         !.responses = send(@, Response(200, NoError, ask.result)),
                         !.phase = "done"])

WriteRejects ==
  /\ ask.phase = "writing"
  /\ AskStep(caught([ask EXCEPT !.speech = "failed"]))

\* The callback of setTimeout runs, 60 seconds after the timer was set.
TimeoutFires ==
  /\ ask.timer = "armed"
  /\ AskStep([ask EXCEPT !.timer = "fired",
                         !.responses = send(@, Response(504, "Request timeout", NoResult))])

NextAsk ==
  \/ Receive
  \/ \E content \in AskContents : OpenAIResolves(content)
  \/ OpenAIRejects
  \/ SpeechResolves
  \/ SpeechRejects
  \/ WriteResolves
  \/ WriteRejects
  \/ TimeoutFires

SpecAsk == InitAsk /\ [][NextAsk]_vars

\* The event loop runs a handler that is ready and a timer that is due; the
\* API and the synthesis may never settle.
SpecAskFair == SpecAsk /\ WF_vars(Receive) /\ WF_vars(TimeoutFires)

----------------------------------------------------------------------------
(* Properties of POST /api/ask                                             *)

NineCodes ==
  { Str(hi), Str(ta), Str(<<"b","n">>), Str(<<"t","e">>), Str(<<"m","r">>),
    Str(<<"g","u">>), Str(<<"k","n">>), Str(<<"m","l">>), Str(en) }

\* A grade is given and it is none of 6 to 12.
BadGrade(body) ==
  /\ body.grade # Undefined
  /\ body.grade \notin {Num(g) : g \in 6..12}

\* The error the request is to be rejected with, "none" for a valid one.
Rejection(body) ==
  IF body.question \in {Undefined, Str(<<>>)} THEN "Question is required"
  ELSE IF languageOf(body) \notin NineCodes THEN "Unsupported language"
  ELSE IF BadGrade(body) THEN "Unsupported grade level"
  ELSE "none"

Handled == ask.phase # "received"

\* C21: a request without a question, else with a language that is none of
\* the nine codes, else with a grade that is none of 6 to 12, is answered
\* with 400 and the error of the first check it fails, and neither the
\* timer nor the generation nor the synthesis is started for it; a request
\* that fails none of the checks is not answered with 400.
C21_InvalidRequestsRejected ==
  Handled =>
    IF Rejection(ask.body) # "none"
    THEN /\ ask.responses = <<Response(400, Rejection(ask.body), NoResult)>>
         /\ ask.timer = "unset"
         /\ ask.generation = "pending" /\ ask.speech = "pending"
    ELSE \A k \in 1..Len(ask.responses) : ask.responses[k].status # 400

Responded == ask.responses # <<>>

\* C22: whatever the order of the timer's callback and the ends of the
\* generation and the synthesis, the handler sends at most one response, of
\* status 200, 400, 500 or 504, and once it has sent one nothing that
\* happens later sends another.
C22_AtMostOneResponse ==
  /\ [](/\ Len(ask.responses) <= 1
        /\ \A k \in 1..Len(ask.responses) :
              ask.responses[k].status \in {200, 400, 500, 504})
  /\ [][Responded => ask'.responses = ask.responses]_vars

\* The timer fired first and the synthesis succeeded after it: the answer
\* came late and 504 is still the only response.
C22_Witness ==
  /\ ask.phase = "done"
  /\ ask.timer = "fired"
  /\ ask.generation = "ok" /\ ask.speech = "ok"
  /\ ask.responses = <<Response(504, "Request timeout", NoResult)>>

Validated == ask.timer # "unset"

StatusIs(status) == Responded /\ ask.responses[1].status = status

\* C23: a request that passed the checks is answered in the end; with 200
\* exactly if generation and synthesis succeeded and the timer had not
\* fired, with 500 exactly if one of them failed and the timer had not
\* fired, with 504 exactly if the timer fired, which it does only while the
\* synthesis has not finished and nothing has failed.  After a 200 or a 500
\* the timer is cleared, and a cleared timer stays cleared.
C23_AnsweredAndTimerCleared ==
  /\ Validated ~> Responded
  /\ [](Validated /\ ask.phase = "done" => Responded)
  /\ [](StatusIs(200) <=>
          ask.generation = "ok" /\ ask.speech = "ok" /\ ask.timer # "fired")
  /\ [](StatusIs(500) <=>
          /\ ask.generation = "failed" \/ ask.speech = "failed"
          /\ ask.timer # "fired")
  /\ [](StatusIs(504) <=> ask.timer = "fired")
  /\ [][ask.timer # "fired" /\ ask'.timer = "fired" =>
          /\ ask.speech = "pending" /\ ask.generation # "failed"
          /\ ~Responded]_vars
  /\ [](StatusIs(200) \/ StatusIs(500) => ask.timer = "cleared")
  /\ [][ask.timer = "cleared" => ask'.timer = "cleared"]_vars

\* An answer sent with 200 after generation and synthesis, the timer
\* cleared.
C23_Witness ==
  /\ StatusIs(200)
  /\ ask.generation = "ok" /\ ask.speech = "ok"
  /\ ask.timer = "cleared"

AnswerReturned == ask.generation = "ok"

EndsIncomplete(answer) ==
  \E k \in 1..Len(incompleteIndicators) :
     endsWith(answer, incompleteIndicators[k])

EndsSentence(answer) ==
  answer # <<>> /\ answer[Len(answer)] \in {"U0964", ".", "!"}

\* C25: an answer that generateAnswer returns ends with none of the
\* indicators '...', double danda and the five conjunctions, and ends with
\* a danda, a full stop or an exclamation mark if it is longer than 500
\* code units; it is the trimmed content, or that with the completion
\* appended once, and the check appends nothing to it.
C25_ReturnedAnswerComplete ==
  AnswerReturned =>
    LET answer == ask.result.answer
        trimmed == trim(ask.content.s)
    IN /\ ~EndsIncomplete(answer)
       /\ Len(answer) > 500 => EndsSentence(answer)
       /\ answer \in {trimmed, trimmed \o completion}
       /\ ~needsCompletion(answer)
       /\ completeAnswer(Str(answer)) = Return(answer)

\* A content of more than 500 code units without a sentence end, returned
\* with the completion appended.
C25_Witness ==
  /\ AnswerReturned
  /\ Len(trim(ask.content.s)) > 500
  /\ ask.result.answer = trim(ask.content.s) \o completion

FourSubjects == {math, physics, chemistry, general}

Contains(question, subject) ==
  \E k \in 1..Len(SUBJECT_CONFIG[subject].keywords) :
     includes(toLowerCase(question), SUBJECT_CONFIG[subject].keywords[k])

\* The first of math, physics and chemistry with a keyword in the
\* lower-cased question, general if there is none.
FirstSubject(question) ==
  IF Contains(question, math) THEN math
  ELSE IF Contains(question, physics) THEN physics
  ELSE IF Contains(question, chemistry) THEN chemistry
  ELSE general

\* C29: in a response with status 200 the subject is one of math, physics,
\* chemistry and general and subjectName is the name of that subject in the
\* table; a request without a subject gets the first of math, physics and
\* chemistry one of whose keywords its lower-cased question contains, and
\* general if there is none.
C29_SubjectAndNameFromTable ==
  StatusIs(200) =>
    LET sent == ask.responses[1]
    IN /\ sent.subject \in {Str(s) : s \in FourSubjects}
       /\ sent.subjectName = SUBJECT_CONFIG[sent.subject.s].name
       /\ ~Truthy(subjectOf(ask.body)) =>
            sent.subject = Str(FirstSubject(ask.body.question.s))

----------------------------------------------------------------------------
(* The server: POST /api/transcribe                                        *)
(* upload holds whether the request carried a file, its language, whether  *)
(* the file multer stored is in the uploads directory, the point the       *)
(* handler has reached, the responses sent, how the transcription ended    *)
(* and whether an unlink of the file has failed.                           *)

TranscribeLanguages ==
  { Undefined, Str(<<"x","x">>), Str(<<"f","r">>),
    Str(<<"c","o","n","s","t","r","u","c","t","o","r">>) } \cup NineCodes

NewUpload(hasFile, language) ==
  [hasFile |-> hasFile, language |-> language,
   file |-> IF hasFile THEN "present" ELSE "none",
   phase |-> "received", responses |-> <<>>,
   transcription |-> "pending", unlinkFailed |-> FALSE]

InitTranscribe ==
  /\ AnalyticsIdle
  /\ \E hasFile \in BOOLEAN, language \in TranscribeLanguages :
        upload = NewUpload(hasFile, language)
  /\ ask = <<>> /\ voice = <<>> /\ form = <<>>

UploadStep(u) == upload' = u /\ UNCHANGED <<analyticsVars, ask, voice, form>>

\* res.status(status).json({ error }) or res.json(...)
reply(u, status, error) ==
  [u EXCEPT !.responses = Append(@, [status |-> status, error |-> error]),
            !.phase = "done"]

\* fs.unlink(path) with its rejection caught: the file is removed if it is
\* there and the unlink succeeds; a failed unlink leaves it.
unlink(u, succeeds) ==
  IF u.file = "present" /\ succeeds THEN [u EXCEPT !.file = "absent"]
  ELSE IF u.file = "present" THEN [u EXCEPT !.unlinkFailed = TRUE]
  ELSE u

\* The handler up to its first wait: without a file, and with a language
\* the table does not have, it answers 400 and returns; otherwise it calls
\* speechToText, which waits for fs.access.
ReceiveUpload ==
  /\ upload.phase = "received"
  /\ IF ~upload.hasFile
     THEN UploadStep(reply(upload, 400, "Audio file is required"))
     ELSE IF NotIn(LANGUAGE_CONFIG, Default(upload.language, Str(hi)))
     THEN UploadStep(reply(upload, 400, "Unsupported language"))
     ELSE UploadStep([upload EXCEPT !.phase = "access"])

\* fs.access settles: speechToText goes on to fs.stat if the file is there
\* and throws into its catch block if it is not.
AccessSettles ==
  /\ upload.phase = "access"
  /\ UploadStep([upload EXCEPT
       !.phase = IF upload.file = "present" THEN "stat" ELSE "unlinkInCatch",
       !.transcription = IF upload.file = "present" THEN @ ELSE "failed"])

\* fs.stat resolves: speechToText calls the transcription API.
StatResolves ==
  /\ upload.phase = "stat"
  /\ UploadStep([upload EXCEPT !.phase = "transcribing"])

\* The API resolves: speechToText unlinks the file.
WhisperResolves ==
  /\ upload.phase = "transcribing"
  /\ UploadStep([upload EXCEPT !.transcription = "ok", !.phase = "unlink"])

\* fs.stat or the API rejects: the catch block of speechToText unlinks the
\* file.
TranscriptionFails ==
  /\ upload.phase \in {"stat", "transcribing"}
  /\ UploadStep([upload EXCEPT !.transcription = "failed",
                               !.phase = "unlinkInCatch"])

\* The unlink of speechToText settles and the text is returned; the handler
\* unlinks the file again.
UnlinkSettles(succeeds) ==
  /\ upload.phase = "unlink"
  /\ UploadStep([unlink(upload, succeeds) EXCEPT !.phase = "unlinkAgain"])

\* The handler's unlink settles and it answers with the text.
UnlinkAgainSettles(succeeds) ==
  /\ upload.phase = "unlinkAgain"
  /\ UploadStep(reply(unlink(upload, succeeds), 200, NoError))

\* The unlink in the catch block of speechToText settles; it throws 'Failed
\* to transcribe audio' and the catch block of the handler unlinks the file.
UnlinkInCatchSettles(succeeds) ==
  /\ upload.phase = "unlinkInCatch"
  /\ UploadStep([unlink(upload, succeeds) EXCEPT !.phase = "unlinkInHandlerCatch"])

\* The unlink in the handler's catch block settles and it answers 500.
UnlinkInHandlerCatchSettles(succeeds) ==
  /\ upload.phase = "unlinkInHandlerCatch"
  /\ UploadStep(reply(unlink(upload, succeeds), 500, "Failed to transcribe audio"))

NextTranscribe ==
  \/ ReceiveUpload
  \/ AccessSettles
  \/ StatResolves
  \/ WhisperResolves
  \/ TranscriptionFails
  \/ \E succeeds \in BOOLEAN : UnlinkSettles(succeeds)
  \/ \E succeeds \in BOOLEAN : UnlinkAgainSettles(succeeds)
  \/ \E succeeds \in BOOLEAN : UnlinkInCatchSettles(succeeds)
  \/ \E succeeds \in BOOLEAN : UnlinkInHandlerCatchSettles(succeeds)

SpecTranscribe == InitTranscribe /\ [][NextTranscribe]_vars

----------------------------------------------------------------------------
(* Properties of POST /api/transcribe                                      *)

UploadAnswered == upload.responses # <<>>

\* The status the outcome of the transcription calls for.
StatusFor(u) ==
  IF NotIn(LANGUAGE_CONFIG, Default(u.language, Str(hi))) THEN 400
  ELSE IF u.transcription = "ok" THEN 200 ELSE 500

\* C24: when a request that carried a file has been answered, with 200,
\* with 500 or with the 400 of an unsupported language, the file is no
\* longer in the uploads directory unless an unlink of it failed, and the
\* status is the one the language and the transcription call for whether
\* or not an unlink failed.
C24_UploadGoneWhenAnswered ==
  upload.hasFile /\ UploadAnswered =>
    /\ ~upload.unlinkFailed => upload.file = "absent"
    /\ upload.responses = <<[status |-> StatusFor(upload),
                             error |-> upload.responses[1].error]>>

----------------------------------------------------------------------------
(* The page: voice input of the App component                              *)
(* voice holds the state of the component (isRecording, isProcessingVoice, *)
(* loading, mediaRecorder, recordingTimeout: 0 stands for null and a       *)
(* recorder's number for the recorder or for the handle of its timer) and, *)
(* for every call of startRecording, its recorder: its state, the point    *)
(* its onstop handler has reached (stage), its 30 second timer and the     *)
(* value of recordingTimeout its closures have captured.                   *)

MaxRecordings == 2

RecorderIds == 1..MaxRecordings

NoRecorder == [state |-> "none", stage |-> "none", timer |-> "unset", closure |-> 0]

InitVoice ==
  /\ AnalyticsIdle
  /\ voice = [isRecording |-> FALSE, isProcessingVoice |-> FALSE,
              loading |-> FALSE, mediaRecorder |-> 0, recordingTimeout |-> 0,
              recorders |-> [r \in RecorderIds |-> NoRecorder]]
  /\ ask = <<>> /\ upload = <<>> /\ form = <<>>

VoiceStep(v) == voice' = v /\ UNCHANGED <<analyticsVars, ask, upload, form>>

\* if (handle) { clearTimeout(handle); setRecordingTimeout(null) }
clearRecordingTimeout(v, handle) ==
  IF handle = 0 THEN v
  ELSE [v EXCEPT !.recorders[handle].timer = clearTimeout(@),
                 !.recordingTimeout = 0]

\* recorder.stop() of a recorder that is recording: it becomes inactive and
\* its stop event is queued.
stop(v, r) ==
  [v EXCEPT !.recorders[r].state = "inactive",
            !.recorders[r].stage = "stopping"]

\* stopRecording.  MediaRecorder.stop() of an inactive recorder throws an
\* InvalidStateError in some browsers and does nothing in others; if it
\* throws, the rest of stopRecording does not run.
stopRecording(v, throws) ==
  IF v.mediaRecorder = 0 \/ ~v.isRecording THEN v
  ELSE LET r == v.mediaRecorder
           recording == v.recorders[r].state = "recording"
           stopped == IF recording THEN stop(v, r) ELSE v
       IN IF ~recording /\ throws THEN v
          ELSE clearRecordingTimeout(
                 [stopped EXCEPT !.isRecording = FALSE,
                                 !.isProcessingVoice = TRUE],
                 v.recordingTimeout)

\* The first recorder number not in use.
nextRecorder(v) ==
  CHOOSE r \in RecorderIds :
    /\ v.recorders[r].state = "none"
    /\ \A q \in RecorderIds : q < r => v.recorders[q].state # "none"

\* startRecording up to its wait for getUserMedia.
startRecording(v) ==
  [v EXCEPT !.isProcessingVoice = FALSE,
            !.recorders[nextRecorder(v)] =
               [NoRecorder EXCEPT !.state = "pending",
                                  !.closure = v.recordingTimeout]]

\* A click on the voice button, which is disabled while loading:
\* handleVoiceInput stops the recording, or starts one, or does nothing.
ClickVoice(throws) ==
  /\ ~voice.loading
  /\ IF voice.isRecording THEN VoiceStep(stopRecording(voice, throws))
     ELSE IF ~voice.isProcessingVoice /\ ~voice.loading
     THEN /\ \E r \in RecorderIds : voice.recorders[r].state = "none"
          /\ VoiceStep(startRecording(voice))
     ELSE VoiceStep(voice)

\* getUserMedia resolves: the recorder is created and started, and its
\* timer is set.
MicrophoneGranted(r) ==
  /\ voice.recorders[r].state = "pending"
  /\ VoiceStep([voice EXCEPT !.mediaRecorder = r,
                             !.isRecording = TRUE,
                             !.recordingTimeout = r,
                             !.recorders[r].state = "recording",
                             !.recorders[r].timer = "armed"])

\* getUserMedia rejects: the catch block of startRecording.
MicrophoneDenied(r) ==
  /\ voice.recorders[r].state = "pending"
  /\ VoiceStep([voice EXCEPT !.isProcessingVoice = FALSE,
                             !.recorders[r].state = "denied"])

\* The timer of recorder r fires after 30 seconds.
AutoStop(r) ==
  /\ voice.recorders[r].timer = "armed"
  /\ LET fired == [voice EXCEPT !.recorders[r].timer = "fired"]
     IN VoiceStep(IF voice.recorders[r].state = "recording"
                  THEN stop(fired, r) ELSE fired)

\* The stop event of recorder r: onstop clears the timer its closure knows
\* and calls transcribeAndProcess, which posts the recording.
OnStop(r) ==
  /\ voice.recorders[r].stage = "stopping"
  /\ VoiceStep([clearRecordingTimeout(voice, voice.recorders[r].closure)
                  EXCEPT !.recorders[r].stage = "transcribing"])

\* POST /transcribe resolves: transcribeAndProcess posts the question.
TranscribeResolves(r) ==
  /\ voice.recorders[r].stage = "transcribing"
  /\ VoiceStep([voice EXCEPT !.recorders[r].stage = "answering"])

\* POST /ask resolves: the response is shown; finally.
AnswerResolves(r) ==
  /\ voice.recorders[r].stage = "answering"
  /\ VoiceStep([voice EXCEPT !.recorders[r].stage = "finished",
                             !.isProcessingVoice = FALSE])

\* One of the two posts rejects: catch and finally.
ProcessingFails(r) ==
  /\ voice.recorders[r].stage \in {"transcribing", "answering"}
  /\ VoiceStep([voice EXCEPT !.recorders[r].stage = "finished",
                             !.isProcessingVoice = FALSE])

\* handleSubmit of a typed question, up to its post.
Submit ==
  /\ ~voice.loading
  /\ VoiceStep([voice EXCEPT !.loading = TRUE])

\* The post of handleSubmit settles: finally.
SubmitSettles ==
  /\ voice.loading
  /\ VoiceStep([voice EXCEPT !.loading = FALSE])

NextVoice ==
  \/ \E throws \in BOOLEAN : ClickVoice(throws)
  \/ \E r \in RecorderIds : MicrophoneGranted(r)
  \/ \E r \in RecorderIds : MicrophoneDenied(r)
  \/ \E r \in RecorderIds : AutoStop(r)
  \/ \E r \in RecorderIds : OnStop(r)
  \/ \E r \in RecorderIds : TranscribeResolves(r)
  \/ \E r \in RecorderIds : AnswerResolves(r)
  \/ \E r \in RecorderIds : ProcessingFails(r)
  \/ Submit
  \/ SubmitSettles

SpecVoice == InitVoice /\ [][NextVoice]_vars

----------------------------------------------------------------------------
(* Properties of the voice input                                           *)

Recording(r) == voice.recorders[r].state = "recording"

Processing(r) == voice.recorders[r].stage \in {"transcribing", "answering"}

\* C26: isRecording is true only while a recorder is recording, so it is
\* false after a stop by a click or by the 30 second timer; and while a
\* stopped recording is transcribed and answered isProcessingVoice is true.
C26_FlagsFollowTheRecorder ==
  /\ voice.isRecording => \E r \in RecorderIds : Recording(r)
  /\ (\E r \in RecorderIds : Processing(r)) => voice.isProcessingVoice

\* A call of startRecording is in flight: it waits for the microphone, or
\* its recorder is recording, or its recording is being processed.
InFlight(r) ==
  \/ voice.recorders[r].state \in {"pending", "recording"}
  \/ voice.recorders[r].stage \in {"stopping", "transcribing", "answering"}

\* C27: at most one voice capture is in flight at any time.
C27_OneCaptureInFlight ==
  Cardinality({r \in RecorderIds : InFlight(r)}) <= 1

----------------------------------------------------------------------------
(* The page: FeedbackComponent                                             *)
(* form holds the props and the state of a mounted component (whether it   *)
(* was given a sessionId; rating, wasHelpful, isSubmitted, isVisible), the *)
(* number of posts it has sent, the number of posts that have not returned *)
(* and the number of timers set to hide it.                                *)

MaxPosts == 2

Stars == 1..5

InitFeedback ==
  /\ AnalyticsIdle
  /\ \E hasSessionId \in BOOLEAN :
        form = [sessionId |-> hasSessionId, rating |-> 0, wasHelpful |-> "null",
                isSubmitted |-> FALSE, isVisible |-> TRUE,
                posts |-> 0, pending |-> 0, timers |-> 0]
  /\ ask = <<>> /\ upload = <<>> /\ voice = <<>>

FormStep(f) == form' = f /\ UNCHANGED <<analyticsVars, ask, upload, voice>>

\* The form with its buttons is rendered.
formShown(f) == f.isVisible /\ ~f.isSubmitted

\* The submit button is rendered.
submitShown(f) == formShown(f) /\ (f.wasHelpful # "null" \/ f.rating > 0)

\* submitFeedback up to its wait for fetch: nothing without a sessionId,
\* else one more post.
submitFeedback(f) ==
  IF ~f.sessionId THEN f
  ELSE [f EXCEPT !.posts = @ + 1, !.pending = @ + 1]

\* A click on a star.
SetRating(star) ==
  /\ formShown(form)
  /\ FormStep([form EXCEPT !.rating = star])

\* A click on one of the two thumbs.
SetWasHelpful(helpful) ==
  /\ formShown(form)
  /\ FormStep([form EXCEPT !.wasHelpful = helpful])

\* A click on the submit button.
ClickSubmit ==
  /\ submitShown(form)
  /\ form.posts < MaxPosts
  /\ FormStep(submitFeedback(form))

\* A post returns: with response.ok the component shows its thanks and sets
\* a timer of 2 seconds; otherwise nothing changes.
PostReturns(ok) ==
  /\ form.pending > 0
  /\ FormStep(IF ok THEN [form EXCEPT !.pending = @ - 1,
                                      !.isSubmitted = TRUE,
                                      !.timers = @ + 1]
              ELSE [form EXCEPT !.pending = @ - 1])

\* fetch rejects: the catch block logs the error.
PostFails ==
  /\ form.pending > 0
  /\ FormStep([form EXCEPT !.pending = @ - 1])

\* A timer set after a post fires: the component renders nothing.
Hide ==
  /\ form.timers > 0
  /\ FormStep([form EXCEPT !.timers = @ - 1, !.isVisible = FALSE])

NextFeedback ==
  \/ \E star \in Stars : SetRating(star)
  \/ \E helpful \in {"true", "false"} : SetWasHelpful(helpful)
  \/ ClickSubmit
  \/ \E ok \in BOOLEAN : PostReturns(ok)
  \/ PostFails
  \/ Hide

SpecFeedback == InitFeedback /\ [][NextFeedback]_vars

----------------------------------------------------------------------------
(* Properties of the FeedbackComponent                                     *)

\* C28: a mounted component sends at most one post for its sessionId,
\* clicks before an earlier post has returned included, and none if it has
\* no sessionId.
C28_AtMostOnePost ==
  /\ form.posts <= 1
  /\ ~form.sessionId => form.posts = 0

====
